---- MODULE Spec2Model ----
(***************************************************************************)
(* Model of src/app.py: the Flask question-answering application           *)
(* (signup/login, /api/ask with its answer formatter, the history store    *)
(* and the /history listing).                                              *)
(*                                                                         *)
(* Text is modelled as a sequence of one-character strings, so that the    *)
(* string operations of the source (strip, split, re.sub, replace,         *)
(* splitlines) are computed character by character as Python computes      *)
(* them.                                                                   *)
(***************************************************************************)
EXTENDS Naturals, Sequences, FiniteSets

\* ------------------------------------------------------------------ bounds

\* Longest token sequence the formatter specification feeds to the formatter.
MaxTokens == 3

\* Most history records the questions table holds in the model.
MaxRecords == 2

\* Most successful PDF uploads the upload history records.
MaxUploads == 2

\* ------------------------------------------------------------ text helpers

\* Characters str.strip() and the regex class \s treat as whitespace
\* (of those that can be written here).
Whitespace == {" ", "\t", "\n", "\r"}

\* Line boundaries of str.splitlines().
LineBreaks == {"\n", "\r"}

\* The character class [\-\*••●◦⁃] of the bullet regex;
\* the non-ASCII glyphs are written by their code points.
BulletGlyphs == {"-", "*", "U+2022", "U+25CF", "U+25E6", "U+2043"}

IsSpace(c) == c \in Whitespace

RECURSIVE LStrip(_)
LStrip(s) ==
  IF s = <<>> \/ ~IsSpace(Head(s)) THEN s ELSE LStrip(Tail(s))

RECURSIVE RStrip(_)
RStrip(s) ==
  IF s = <<>> \/ ~IsSpace(s[Len(s)]) THEN s ELSE RStrip(SubSeq(s, 1, Len(s) - 1))

\* str.strip()
Strip(s) == RStrip(LStrip(s))

\* Whether character c occurs in s at index i or later.
OccursFrom(s, c, i) == \E k \in i..Len(s) : s[k] = c

\* The least index >= i at which character c occurs in s, 0 when there is none.
RECURSIVE IndexOf(_, _, _)
IndexOf(s, c, i) ==
  IF ~OccursFrom(s, c, i) THEN 0
  ELSE IF s[i] = c THEN i
  ELSE IndexOf(s, c, i + 1)

\* Whether character c occurs in s at index i or later.
\* Whether pat occurs in s at index i.
StartsWith(s, pat, i) ==
  /\ i + Len(pat) - 1 <= Len(s)
  /\ \A k \in 1..Len(pat) : s[i + k - 1] = pat[k]

\* The least index >= i at which pat occurs in s, 0 when there is none.
RECURSIVE Find(_, _, _)
Find(s, pat, i) ==
  IF i + Len(pat) - 1 > Len(s) THEN 0
  ELSE IF StartsWith(s, pat, i) THEN i
  ELSE Find(s, pat, i + 1)

\* str.replace(pat, ""): the occurrences of pat, left to right and not
\* overlapping, removed (a rest without pat's first character is kept whole).
RECURSIVE RemoveAll(_, _, _)
RemoveAll(s, pat, i) ==
  IF ~OccursFrom(s, pat[1], i) THEN SubSeq(s, i, Len(s))
  ELSE IF StartsWith(s, pat, i) THEN RemoveAll(s, pat, i + Len(pat))
  ELSE <<s[i]>> \o RemoveAll(s, pat, i + 1)

\* question.split('?')[0]: the text before the first '?', all of it when
\* there is none.
SplitFirst(s, c) ==
  LET k == IndexOf(s, c, 1)
  IN  IF k = 0 THEN s ELSE SubSeq(s, 1, k - 1)

\* --------------------------------------------------------------- literals

AnswerLiteral == <<"A", "n", "s", "w", "e", "r">>

HelloPrompt == <<"H", "e", "l", "l", "o">>

ModelErrorSentinel ==
  <<"S", "o", "r", "r", "y", ",", " ", "s", "o", "m", "e", "t", "h", "i", "n", "g",
    " ", "w", "e", "n", "t", " ", "w", "r", "o", "n", "g", " ", "w", "i", "t", "h",
    " ", "t", "h", "e", " ", "m", "o", "d", "e", "l", ".">>

NoResponseLiteral ==
  <<"N", "o", " ", "r", "e", "s", "p", "o", "n", "s", "e", " ",
    "r", "e", "c", "e", "i", "v", "e", "d", ".">>

\* The backtick, which a string of this language cannot hold, is written by
\* its code point.
Backtick == "U+0060"

Fence == <<Backtick, Backtick, Backtick>>

\* ------------------------------------------------------- answer formatter

\* heading = question.split('?')[0].strip() or 'Answer'
HeadingText(question) == Strip(SplitFirst(question, "?"))

\* Variant: without the fallback to 'Answer'.
Heading_no_fallback(question) == HeadingText(question)

Heading(question) ==
  IF HeadingText(question) = <<>> THEN AnswerLiteral ELSE HeadingText(question)

\* re.sub of the code-fence pattern (three backticks, [\s\S]*?, three
\* backticks) by "": each fence, from its opening to the nearest closing
\* one, is removed; an unclosed fence stays, and so does a rest without a
\* backtick.
RECURSIVE RemoveFences(_, _)
RemoveFences(s, i) ==
  IF ~OccursFrom(s, Backtick, i) THEN SubSeq(s, i, Len(s))
  ELSE IF StartsWith(s, Fence, i) /\ Find(s, Fence, i + 3) # 0
       THEN RemoveFences(s, Find(s, Fence, i + 3) + 3)
       ELSE <<s[i]>> \o RemoveFences(s, i + 1)

\* re.sub(r"!\[([^\]]*)\]\([^\)]*\)", r"\1", text): each image, from its
\* "![" over the first "]", which "(" must follow, to the first ")" after
\* that, is replaced by its alt text.
RECURSIVE SubImages(_, _)
SubImages(s, i) ==
  IF ~OccursFrom(s, "!", i) THEN SubSeq(s, i, Len(s))
  ELSE LET k == IndexOf(s, "]", i + 2)
           m == IF k = 0 THEN 0 ELSE IndexOf(s, ")", k + 2)
       IN  IF /\ StartsWith(s, <<"!", "[">>, i)
              /\ k # 0
              /\ StartsWith(s, <<"]", "(">>, k)
              /\ m # 0
           THEN SubSeq(s, i + 2, k - 1) \o SubImages(s, m + 1)
           ELSE <<s[i]>> \o SubImages(s, i + 1)

\* re.sub(r"\[([^\]]+)\]\([^\)]+\)", r"\1", text): each link, from its "["
\* over the first "]", which "(" must follow, to the first ")" after that,
\* is replaced by its text; the text and the target must not be empty.
RECURSIVE SubLinks(_, _)
SubLinks(s, i) ==
  IF ~OccursFrom(s, "[", i) THEN SubSeq(s, i, Len(s))
  ELSE LET k == IndexOf(s, "]", i + 1)
           m == IF k = 0 THEN 0 ELSE IndexOf(s, ")", k + 2)
       IN  IF /\ s[i] = "["
              /\ k > i + 1
              /\ StartsWith(s, <<"]", "(">>, k)
              /\ m > k + 2
           THEN SubSeq(s, i + 1, k - 1) \o SubLinks(s, m + 1)
           ELSE <<s[i]>> \o SubLinks(s, i + 1)

\* Variant: without the last replace, a single '_' stays.
RemoveMarkers_keep_underscore(s) ==
  LET t1 == RemoveAll(s, <<"*", "*">>, 1)
      t2 == RemoveAll(t1, <<"_", "_">>, 1)
      t3 == RemoveAll(t2, <<Backtick>>, 1)
  IN  RemoveAll(t3, <<"*">>, 1)

\* text.replace("**", "").replace("__", "").replace(backtick, "")
\*     .replace("*", "").replace("_", "")
RemoveMarkers(s) ==
  LET t1 == RemoveAll(s, <<"*", "*">>, 1)
      t2 == RemoveAll(t1, <<"_", "_">>, 1)
      t3 == RemoveAll(t2, <<Backtick>>, 1)
      t4 == RemoveAll(t3, <<"*">>, 1)
  IN  RemoveAll(t4, <<"_">>, 1)

\* The least index >= i of a line boundary in s, 0 when there is none.
RECURSIVE IndexOfBreak(_, _)
IndexOfBreak(s, i) ==
  IF \A k \in i..Len(s) : s[k] \notin LineBreaks THEN 0
  ELSE IF s[i] \in LineBreaks THEN i
  ELSE IndexOfBreak(s, i + 1)

\* str.splitlines(): the lines without their terminators ("\r\n" is one
\* terminator); a terminator at the very end opens no further line.
RECURSIVE SplitLines(_)
SplitLines(s) ==
  IF s = <<>> THEN <<>>
  ELSE LET k == IndexOfBreak(s, 1)
           n == IF k # 0 /\ StartsWith(s, <<"\r", "\n">>, k) THEN k + 2 ELSE k + 1
       IN  IF k = 0 THEN <<s>>
           ELSE <<SubSeq(s, 1, k - 1)>> \o SplitLines(SubSeq(s, n, Len(s)))

\* Variant: the pattern with \s* for \s+, a glyph that no whitespace follows
\* is removed too.
StripBullet_no_blank(line) ==
  LET rest == LStrip(line)
  IN  IF Len(rest) >= 1 /\ rest[1] \in BulletGlyphs
      THEN LStrip(Tail(rest))
      ELSE line

\* re.sub(r"^\s*([\-\*••●◦⁃])\s+", "", line)
StripBullet(line) ==
  LET rest == LStrip(line)
  IN  IF /\ Len(rest) >= 2
         /\ rest[1] \in BulletGlyphs
         /\ IsSpace(rest[2])
      THEN LStrip(Tail(rest))
      ELSE line

\* "\n".join(lines)
RECURSIVE JoinLines(_)
JoinLines(lines) ==
  IF lines = <<>> THEN <<>>
  ELSE IF Len(lines) = 1 THEN lines[1]
  ELSE lines[1] \o <<"\n">> \o JoinLines(Tail(lines))

\* The number of consecutive "\n" in s from index i on.
RECURSIVE NewlineRun(_, _)
NewlineRun(s, i) ==
  IF i > Len(s) \/ s[i] # "\n" THEN 0 ELSE 1 + NewlineRun(s, i + 1)

\* re.sub(r"\n{3,}", "\n\n", text)
RECURSIVE CollapseNewlines(_, _)
CollapseNewlines(s, i) ==
  IF ~OccursFrom(s, "\n", i) THEN SubSeq(s, i, Len(s))
  ELSE IF NewlineRun(s, i) >= 3
       THEN <<"\n", "\n">> \o CollapseNewlines(s, i + NewlineRun(s, i))
       ELSE <<s[i]>> \o CollapseNewlines(s, i + 1)

\* for line in text.splitlines(): ... lines.append(line)
StripBullets(lines) == [k \in 1..Len(lines) |-> StripBullet(lines[k])]

clean_markdown(md) ==
  IF md = <<>> THEN <<>>
  ELSE LET t1 == RemoveFences(md, 1)
           t2 == SubImages(t1, 1)
           t3 == SubLinks(t2, 1)
           t4 == RemoveMarkers(t3)
           t5 == JoinLines(StripBullets(SplitLines(t4)))
       IN  Strip(CollapseNewlines(t5, 1))

\* body = clean_markdown(raw_answer.strip())
Body(raw_answer) == clean_markdown(Strip(raw_answer))


\* ------------------------------------------------------------------ state

VARIABLES
  users,        \* table users: rows [id, username, password], in id order
  questions,    \* table questions: rows [user_id, question, answer, timestamp],
                \* in id order (a row's id is its index)
  session,      \* per browser client: the logged-in user's id, 0 when none
  initialized,  \* qa_bot.initialized
  ollama,       \* the calls of ask_ollama made by the last request, each
                \* [prompt, ret]: the prompt posted to the model and the
                \* value ask_ollama returned
  resp,         \* the response to the last request
  fmtIn,        \* formatter specification: the text given to the formatter
  fmtOut,       \* formatter specification: what the formatter made of it
  PDF_VECTORSTORES,  \* per user id: the retrieval index stored for the user
  tempfiles,    \* the user ids u whose file temp_<u>.pdf exists
  output_mp3,   \* the file output.mp3
  awaiting,     \* per browser client: the text whose synthesis /api/tts last
                \* reported to it ("" when none yet)
  uploads,      \* history: the successful uploads so far, [user_id, doc]
  ext,          \* the calls of external services (PDF loader, embeddings,
                \* OCR, speech recognition, synthesis, player) made by the
                \* last request to a media route, each [service, arg]
  pc,           \* thread-level specifications, per browser client: where
                \* its request in flight stands, for which user it runs and
                \* what it has read so far
  warmups,      \* warm-up specification, history: for each warm-up prompt
                \* initialize has sent, whether it was answered
  temp_pdf,     \* thread-level specifications: for each path temp_<id>.pdf,
                \* the document the file holds ("absent" when there is none)
  shown         \* thread-level specifications, per browser client: what the
                \* question form of its page shows

fmtVars == <<fmtIn, fmtOut>>

mediaVars == <<PDF_VECTORSTORES, tempfiles, output_mp3, awaiting, uploads, ext>>

warmVars == <<pc, warmups>>

threadVars == <<temp_pdf, shown>>

vars ==
  <<users, questions, session, initialized, ollama, resp, fmtVars, mediaVars, warmVars,
    threadVars>>

\* ----------------------------------------------------------------- inputs

Clients == {"c1"}

\* Handles: the privileged one and one that differs from it in case only.
Handles == {"admin", "Admin"}

\* Passwords set at signup, and passwords tried at login ("p2" is a wrong one).
Passwords == {"p1"}

LoginPasswords == {"p1", "p2"}

\* Question fields sent to /api/ask: empty, whitespace only, and a question
\* with surrounding whitespace.
QuestionInputs == {<<>>, <<" ", "\n">>, <<" ", "a", "?", " ">>}

\* What the model endpoint does with a prompt: a reply with a response
\* field, a reply without one, or one of the failures ask_ollama catches
\* (requests.post raising, raise_for_status raising, response.json raising).
ErrorKinds == {"transport_error", "http_error", "bad_json"}

SuccessOutcomes ==
  {[kind |-> "ok", text |-> <<" ", "*", "x", "*", "\n">>], [kind |-> "absent", text |-> <<>>]}

ErrorOutcomes == {[kind |-> k, text |-> <<>>] : k \in ErrorKinds}

ModelOutcomes == SuccessOutcomes \cup ErrorOutcomes

NoOutcome == [kind |-> "none", text |-> <<>>]

\* A reply of the model whose response field is null.
NullOutcome == [kind |-> "null", text |-> <<>>]

\* Python's None where a text is expected.
NoneValue == <<"None">>

\* data.get("response", "No response received."): the field when the reply
\* has one, null included, the default when it has none.
ResponseOf(outcome) ==
  IF outcome.kind = "ok" THEN outcome.text
  ELSE IF outcome.kind = "null" THEN NoneValue
  ELSE NoResponseLiteral

\* werkzeug's generate_password_hash / check_password_hash (the salt left out).
generate_password_hash(password) == <<"pbkdf2", password>>

check_password_hash(hash, password) == hash = generate_password_hash(password)

\* ---------------------------------------------------------------- helpers

\* SELECT ... FROM users WHERE username = ?
UserRowsByName(username) == {k \in 1..Len(users) : users[k].username = username}

\* load_user: the id when a row with it exists, else 0 (anonymous).
load_user(user_id) ==
  IF user_id \in {users[k].id : k \in 1..Len(users)} THEN user_id ELSE 0

\* current_user of a request from client c.
CurrentUser(c) == load_user(session[c])

UsernameOf(user_id) ==
  users[CHOOSE k \in 1..Len(users) : users[k].id = user_id].username

\* CURRENT_TIMESTAMP at an insert: the clock has one-second ticks and does
\* not run backwards, so a new row's timestamp is that of the row before it
\* or a later one.
Timestamps ==
  IF questions = <<>> THEN {1}
  ELSE {questions[Len(questions)].timestamp, questions[Len(questions)].timestamp + 1}

\* What happens around one call of ask_ollama: the model's outcome, whether
\* the insert succeeds (db_ok) and the time of the insert (now). The insert
\* is attempted only after a reply, and the time read only by an insert that
\* succeeds; elsewhere the two are held at TRUE and 0.
CallInputs ==
  {<<o, TRUE, t>> : o \in SuccessOutcomes, t \in Timestamps}
    \cup {<<o, FALSE, 0>> : o \in SuccessOutcomes}
    \cup {<<o, TRUE, 0>> : o \in ErrorOutcomes}

\* The same for a request that may not reach ask_ollama at all (called
\* false), where nothing of it is read.
CallInputsFor(called) == IF called THEN CallInputs ELSE {<<NoOutcome, TRUE, 0>>}

\* Variant: the record is written on a failed call too.
ask_ollama_record_on_error(user_id, question, outcome, db_ok, now) ==
  LET answer == IF outcome.kind \in ErrorKinds THEN ModelErrorSentinel
                ELSE IF outcome.kind = "ok" THEN outcome.text ELSE NoResponseLiteral
  IN  [ret |-> answer,
       questions |->
         IF user_id # 0 /\ db_ok
         THEN Append(questions,
                     [user_id |-> user_id, question |-> question,
                      answer |-> answer, timestamp |-> now])
         ELSE questions]

\* Variant: the record holds the cleaned answer.
ask_ollama_stores_body(user_id, question, outcome, db_ok, now) ==
  IF outcome.kind \in ErrorKinds
  THEN [ret |-> ModelErrorSentinel, questions |-> questions]
  ELSE LET answer == IF outcome.kind = "ok" THEN outcome.text ELSE NoResponseLiteral
       IN  [ret |-> answer,
            questions |->
              IF user_id # 0 /\ db_ok
              THEN Append(questions,
                          [user_id |-> user_id, question |-> question,
                           answer |-> Body(answer), timestamp |-> now])
              ELSE questions]

\* Variant: a failing insert is caught by the outer except, the sentinel
\* returned.
ask_ollama_insert_error_surfaces(user_id, question, outcome, db_ok, now) ==
  IF outcome.kind \in ErrorKinds \/ (user_id # 0 /\ ~db_ok)
  THEN [ret |-> ModelErrorSentinel, questions |-> questions]
  ELSE LET answer == IF outcome.kind = "ok" THEN outcome.text ELSE NoResponseLiteral
       IN  [ret |-> answer,
            questions |->
              IF user_id # 0
              THEN Append(questions,
                          [user_id |-> user_id, question |-> question,
                           answer |-> answer, timestamp |-> now])
              ELSE questions]

\* Variant: one record per user, the new one put in the place of the
\* user's earlier one.
ask_ollama_one_per_user(user_id, question, outcome, db_ok, now) ==
  IF outcome.kind \in ErrorKinds
  THEN [ret |-> ModelErrorSentinel, questions |-> questions]
  ELSE LET answer == IF outcome.kind = "ok" THEN outcome.text ELSE NoResponseLiteral
           row == [user_id |-> user_id, question |-> question,
                   answer |-> answer, timestamp |-> now]
       IN  [ret |-> answer,
            questions |->
              IF user_id # 0 /\ db_ok
              THEN IF \E k \in 1..Len(questions) : questions[k].user_id = user_id
                   THEN [k \in 1..Len(questions) |->
                           IF questions[k].user_id = user_id THEN row ELSE questions[k]]
                   ELSE Append(questions, row)
              ELSE questions]

\* Variant: the record is written whether or not there is a current user.
ask_ollama_no_identity_test(user_id, question, outcome, db_ok, now) ==
  IF outcome.kind \in ErrorKinds
  THEN [ret |-> ModelErrorSentinel, questions |-> questions]
  ELSE LET answer == IF outcome.kind = "ok" THEN outcome.text ELSE NoResponseLiteral
       IN  [ret |-> answer,
            questions |->
              IF db_ok
              THEN Append(questions,
                          [user_id |-> user_id, question |-> question,
                           answer |-> answer, timestamp |-> now])
              ELSE questions]

\* QABot.ask_ollama(question) for current user user_id (0: none), the model
\* answering with outcome, the insert succeeding or not (db_ok), at time now.
\* Gives the value returned and the questions table afterwards.
ask_ollama(user_id, question, outcome, db_ok, now) ==
  IF outcome.kind \in ErrorKinds
  THEN [ret |-> ModelErrorSentinel, questions |-> questions]
  ELSE LET answer == ResponseOf(outcome)
       IN  [ret |-> answer,
            questions |->
              IF user_id # 0 /\ db_ok
              THEN Append(questions,
                          [user_id |-> user_id, question |-> question,
                           answer |-> answer, timestamp |-> now])
              ELSE questions]

\* Variant: the name of the user's document is put before the question.
Prompt_with_context(question, index) ==
  IF index.chunks = {} THEN question ELSE <<index.doc, ":">> \o question

\* "prompt": question in the payload of ask_ollama; the index of the user
\* takes no part in it.
Prompt(question, index) == question

Redirect(to, flash) == [kind |-> "redirect", status |-> 302, to |-> to, flash |-> flash]

Page(page, flash) == [kind |-> "html", status |-> 200, page |-> page, flash |-> flash]

Json(status, obj) == [kind |-> "json", status |-> status, json |-> obj]

\* An unhandled exception in a view: Flask's 500 page.
ServerError == [kind |-> "error_page", status |-> 500]

\* ------------------------------------------------------------------- Init

\* The ids the users table can give: one per handle.
UserIds == 1..Cardinality(Handles)

\* No index stored for a user; no file output.mp3.
NoIndex == [doc |-> "none", chunks |-> {}]

NoAudio == [state |-> "missing", text |-> "", lang |-> ""]

\* PDF_VECTORSTORES = {}, no temp file and no output.mp3, the browsers in
\* clients awaiting nothing.
MediaIdle(clients) ==
  /\ PDF_VECTORSTORES = [u \in UserIds |-> NoIndex]
  /\ tempfiles = {}
  /\ output_mp3 = NoAudio
  /\ awaiting = [c \in clients |-> ""]
  /\ uploads = <<>>
  /\ ext = <<>>

\* A browser without a request to / under way.
Idle == [at |-> "idle", user |-> 0]

\* QABot.__init__: no warm-up sent, no request to / under way.
WarmIdle(clients) ==
  /\ pc = [c \in clients |-> Idle]
  /\ warmups = <<>>

\* Variant: one path for the uploads of all users.
TempPath_shared(user_id) == <<"temp", ".pdf">>

\* temp_path = f"temp_{current_user.id}.pdf"
TempPath(user_id) == <<"temp_", user_id, ".pdf">>

\* No temp file on disk, the pages of the browsers in clients as loaded.
ThreadIdle(clients) ==
  /\ temp_pdf = [p \in {TempPath(u) : u \in UserIds} |-> "absent"]
  /\ shown = [c \in clients |-> "form"]

AppInit ==
  /\ users = <<>>
  /\ questions = <<>>
  /\ session = [c \in Clients |-> 0]
  /\ initialized = FALSE
  /\ ollama = <<>>
  /\ resp = [kind |-> "none", status |-> 0]
  /\ MediaIdle(Clients)
  /\ WarmIdle(Clients)
  /\ ThreadIdle(Clients)

FmtIdle ==
  /\ fmtIn = [kind |-> "none", text |-> <<>>]
  /\ fmtOut = [done |-> FALSE]

Init == AppInit /\ FmtIdle

\* ---------------------------------------------------------------- actions

\* Variant: INSERT OR REPLACE, the row of a taken handle gets the new hash.
signup_replace(c, username, password) ==
  /\ IF UserRowsByName(username) = {}
     THEN /\ users' = Append(users, [id |-> Len(users) + 1, username |-> username,
                                     password |-> generate_password_hash(password)])
          /\ resp' = Redirect("login", "Account created! Please login.")
     ELSE /\ users' = [k \in 1..Len(users) |->
                         IF users[k].username = username
                         THEN [users[k] EXCEPT !.password = generate_password_hash(password)]
                         ELSE users[k]]
          /\ resp' = Page("signup", "Username already taken.")
  /\ ollama' = <<>>
  /\ UNCHANGED <<questions, session, initialized, fmtVars, mediaVars, warmVars, threadVars>>

\* POST /signup
signup(c, username, password) ==
  /\ IF UserRowsByName(username) = {}
     THEN /\ users' = Append(users, [id |-> Len(users) + 1, username |-> username,
                                     password |-> generate_password_hash(password)])
          /\ resp' = Redirect("login", "Account created! Please login.")
     ELSE /\ users' = users
          /\ resp' = Page("signup", "Username already taken.")
  /\ ollama' = <<>>
  /\ UNCHANGED <<questions, session, initialized, fmtVars, mediaVars, warmVars, threadVars>>

\* POST /login
login(c, username, password) ==
  /\ IF \E k \in UserRowsByName(username) : check_password_hash(users[k].password, password)
     THEN /\ session' = [session EXCEPT ![c] =
                           users[CHOOSE k \in UserRowsByName(username) : TRUE].id]
          /\ resp' = Redirect("home", "")
     ELSE /\ session' = session
          /\ resp' = Page("login", "Invalid credentials")
  /\ ollama' = <<>>
  /\ UNCHANGED <<users, questions, initialized, fmtVars, mediaVars, warmVars, threadVars>>

\* GET /logout
logout(c) ==
  /\ session' = [session EXCEPT ![c] = 0]
  /\ resp' = Redirect("login", "")
  /\ ollama' = <<>>
  /\ UNCHANGED <<users, questions, initialized, fmtVars, mediaVars, warmVars, threadVars>>

\* GET / : login_required, then the warm-up of QABot.initialize on first use.
home(c, outcome, db_ok, now) ==
  /\ IF CurrentUser(c) = 0
     THEN /\ resp' = Redirect("login", "")
          /\ ollama' = <<>>
          /\ UNCHANGED <<questions, initialized>>
     ELSE /\ resp' = [kind |-> "html", status |-> 200, page |-> "home", flash |-> "",
                       username |-> UsernameOf(CurrentUser(c))]
          /\ IF initialized
             THEN /\ ollama' = <<>>
                  /\ UNCHANGED <<questions, initialized>>
             ELSE LET r == ask_ollama(CurrentUser(c), HelloPrompt, outcome, db_ok, now)
                  IN  /\ Len(r.questions) <= MaxRecords
                      /\ initialized' = TRUE
                      /\ questions' = r.questions
                      /\ ollama' = <<[prompt |-> HelloPrompt, ret |-> r.ret]>>
  /\ UNCHANGED <<users, session, fmtVars, mediaVars, warmVars, threadVars>>

\* Variant: the question is tested for emptiness as it was sent, untrimmed.
ask_unstripped(c, question_field, outcome, db_ok, now) ==
  LET question == question_field
  IN  /\ IF CurrentUser(c) = 0
         THEN /\ resp' = Redirect("login", "")
              /\ ollama' = <<>>
              /\ questions' = questions
         ELSE IF question = <<>>
         THEN /\ resp' = Json(400, [message |-> "No question provided."])
              /\ ollama' = <<>>
              /\ questions' = questions
         ELSE LET r == ask_ollama(CurrentUser(c), question, outcome, db_ok, now)
              IN  /\ Len(r.questions) <= MaxRecords
                  /\ questions' = r.questions
                  /\ ollama' = <<[prompt |-> question, ret |-> r.ret]>>
                  /\ resp' = Json(200, [heading |-> Heading(question), body |-> Body(r.ret)])
      /\ UNCHANGED <<users, session, initialized, fmtVars, mediaVars, warmVars, threadVars>>

\* Variant: a failed model call is answered with an error object and 502.
ask_error_on_failure(c, question_field, outcome, db_ok, now) ==
  LET question == Strip(question_field)
  IN  /\ IF CurrentUser(c) = 0
         THEN /\ resp' = Redirect("login", "")
              /\ ollama' = <<>>
              /\ questions' = questions
         ELSE IF question = <<>>
         THEN /\ resp' = Json(400, [message |-> "No question provided."])
              /\ ollama' = <<>>
              /\ questions' = questions
         ELSE LET r == ask_ollama(CurrentUser(c), question, outcome, db_ok, now)
              IN  /\ Len(r.questions) <= MaxRecords
                  /\ questions' = r.questions
                  /\ ollama' = <<[prompt |-> question, ret |-> r.ret]>>
                  /\ resp' = IF r.ret = ModelErrorSentinel
                             THEN Json(502, [error |-> "model"])
                             ELSE Json(200, [heading |-> Heading(question),
                                             body |-> Body(r.ret)])
      /\ UNCHANGED <<users, session, initialized, fmtVars, mediaVars, warmVars, threadVars>>

\* POST /api/ask
ask(c, question_field, outcome, db_ok, now) ==
  LET question == Strip(question_field)
  IN  /\ IF CurrentUser(c) = 0
         THEN /\ resp' = Redirect("login", "")
              /\ ollama' = <<>>
              /\ questions' = questions
         ELSE IF question = <<>>
         THEN /\ resp' = Json(400, [message |-> "No question provided."])
              /\ ollama' = <<>>
              /\ questions' = questions
         ELSE LET r == ask_ollama(CurrentUser(c), question, outcome, db_ok, now)
              IN  /\ Len(r.questions) <= MaxRecords
                  /\ questions' = r.questions
                  /\ ollama' = <<[prompt |-> Prompt(question,
                                                    PDF_VECTORSTORES[CurrentUser(c)]),
                                  ret |-> r.ret]>>
                  /\ resp' = IF r.ret = NoneValue
                             THEN ServerError   \* raw_answer.strip() on None
                             ELSE Json(200, [heading |-> Heading(question),
                                             body |-> Body(r.ret)])
      /\ UNCHANGED <<users, session, initialized, fmtVars, mediaVars, warmVars, threadVars>>

\* The orders ORDER BY timestamp DESC may give the rows with ids in S: every
\* arrangement in which no row comes before one with a later timestamp.
OrderByTimestampDesc(S) ==
  {s \in [1..Cardinality(S) -> S] :
     /\ \A i, j \in 1..Cardinality(S) : i # j => s[i] # s[j]
     /\ \A i, j \in 1..Cardinality(S) :
          i < j => questions[s[i]].timestamp >= questions[s[j]].timestamp}

\* Variant: the query without its WHERE clause.
HistorySelection_all(user_id, is_admin) ==
  {k \in 1..Len(questions) :
     \E u \in 1..Len(users) : users[u].id = questions[k].user_id}

\* The rows /history selects for the current user: all that join a users
\* row for the admin, the user's own otherwise.
HistorySelection(user_id, is_admin) ==
  IF is_admin
  THEN {k \in 1..Len(questions) :
          \E u \in 1..Len(users) : users[u].id = questions[k].user_id}
  ELSE {k \in 1..Len(questions) : questions[k].user_id = user_id}

HistoryRow(k, is_admin) ==
  IF is_admin
  THEN <<UsernameOf(questions[k].user_id), questions[k].question,
         questions[k].answer, questions[k].timestamp>>
  ELSE <<questions[k].question, questions[k].answer, questions[k].timestamp>>

\* is_admin = (current_user.username == 'admin')
IsAdmin(username) == username = "admin"

\* GET /history. The response carries, beside the rendered rows, the ids of
\* the table rows they were made from.
history(c) ==
  /\ ollama' = <<>>
  /\ IF CurrentUser(c) = 0
     THEN resp' = Redirect("login", "")
     ELSE LET is_admin == IsAdmin(UsernameOf(CurrentUser(c)))
          IN  \E ids \in OrderByTimestampDesc(HistorySelection(CurrentUser(c), is_admin)) :
                resp' = [kind |-> "html", status |-> 200, page |-> "history",
                         flash |-> "", is_admin |-> is_admin, ids |-> ids,
                         history |-> [k \in 1..Len(ids) |-> HistoryRow(ids[k], is_admin)]]
  /\ UNCHANGED <<users, questions, session, initialized, fmtVars, mediaVars, warmVars, threadVars>>

\* ------------------------------------------------------------ media routes

\* Files sent in the field pdf: two that parse to pages with text, one that
\* parses to no page and one that PyPDFLoader cannot read (load() raises
\* with the message in error); NoFile when the field is missing. chunks are
\* the chunks split_documents makes of the pages.
Documents ==
  {[name |-> "d1", pages |-> 2, chunks |-> {"d1.1", "d1.2"}, error |-> ""],
   [name |-> "d2", pages |-> 1, chunks |-> {"d2.1"}, error |-> ""],
   [name |-> "empty", pages |-> 0, chunks |-> {}, error |-> ""],
   [name |-> "broken", pages |-> 0, chunks |-> {}, error |-> "EOF marker not found"]}

NoFile == [name |-> "none", pages |-> 0, chunks |-> {}, error |-> ""]

\* What HuggingFaceEmbeddings and FAISS.from_documents do: succeed, or raise
\* with a message.
EmbedOutcomes == {"ok", "No space left on device"}

Call(service, arg) == [service |-> service, arg |-> arg]

\* login_required refusing a request to path: the redirect to the login
\* view, which is given the path to come back to.
Unauthorized(path) ==
  [kind |-> "redirect", status |-> 302, to |-> "login", flash |-> "", next |-> path]

\* FAISS.from_documents(docs, embeddings): an index of the chunks given.
FAISS_from_documents(name, docs) == [doc |-> name, chunks |-> docs]

\* Variant: the new chunks are added to the index the user already has.
StoreIndex_merge(old, new) == [doc |-> new.doc, chunks |-> old.chunks \cup new.chunks]

\* PDF_VECTORSTORES[current_user.id] = vectorstore
StoreIndex(old, new) == new

\* Variant: without the test for a document of no page.
upload_pdf_no_empty_test(c, pdf, embed) ==
  LET uid == CurrentUser(c)
      loader == Call("PyPDFLoader", pdf.name)
      embedder == Call("embeddings", pdf.name)
  IN  /\ IF uid = 0
         THEN /\ resp' = Unauthorized("/api/upload_pdf")
              /\ ext' = <<>>
              /\ UNCHANGED <<PDF_VECTORSTORES, tempfiles, uploads>>
         ELSE IF pdf = NoFile
         THEN /\ resp' = Json(400, [error |-> "No PDF uploaded"])
              /\ ext' = <<>>
              /\ UNCHANGED <<PDF_VECTORSTORES, tempfiles, uploads>>
         ELSE IF pdf.error # ""
         THEN /\ resp' = Json(500, [error |-> pdf.error])
              /\ ext' = <<loader>>
              /\ tempfiles' = tempfiles \cup {uid}
              /\ UNCHANGED <<PDF_VECTORSTORES, uploads>>
         ELSE IF embed # "ok"
         THEN /\ resp' = Json(500, [error |-> embed])
              /\ ext' = <<loader, embedder>>
              /\ tempfiles' = tempfiles \cup {uid}
              /\ UNCHANGED <<PDF_VECTORSTORES, uploads>>
         ELSE /\ Len(uploads) < MaxUploads
              /\ PDF_VECTORSTORES' =
                   [PDF_VECTORSTORES EXCEPT
                      ![uid] = StoreIndex(@, FAISS_from_documents(pdf.name, pdf.chunks))]
              /\ tempfiles' = tempfiles \ {uid}
              /\ uploads' = Append(uploads, [user_id |-> uid, doc |-> pdf.name])
              /\ ext' = <<loader, embedder>>
              /\ resp' = Json(200, [status |-> "PDF uploaded and processed successfully."])
      /\ ollama' = <<>>
      /\ UNCHANGED <<users, questions, session, initialized, fmtVars, output_mp3,
                     awaiting, warmVars, threadVars>>

\* POST /api/upload_pdf
upload_pdf(c, pdf, embed) ==
  LET uid == CurrentUser(c)
      loader == Call("PyPDFLoader", pdf.name)
      embedder == Call("embeddings", pdf.name)
  IN  /\ IF uid = 0
         THEN /\ resp' = Unauthorized("/api/upload_pdf")
              /\ ext' = <<>>
              /\ UNCHANGED <<PDF_VECTORSTORES, tempfiles, uploads>>
         ELSE IF pdf = NoFile
         THEN /\ resp' = Json(400, [error |-> "No PDF uploaded"])
              /\ ext' = <<>>
              /\ UNCHANGED <<PDF_VECTORSTORES, tempfiles, uploads>>
         ELSE IF pdf.error # ""
         THEN /\ resp' = Json(500, [error |-> pdf.error])
              /\ ext' = <<loader>>
              /\ tempfiles' = tempfiles \cup {uid}
              /\ UNCHANGED <<PDF_VECTORSTORES, uploads>>
         ELSE IF pdf.pages = 0
         THEN /\ resp' = Json(400, [error |-> "PDF is empty or cannot be read"])
              /\ ext' = <<loader>>
              /\ tempfiles' = tempfiles \cup {uid}
              /\ UNCHANGED <<PDF_VECTORSTORES, uploads>>
         ELSE IF embed # "ok"
         THEN /\ resp' = Json(500, [error |-> embed])
              /\ ext' = <<loader, embedder>>
              /\ tempfiles' = tempfiles \cup {uid}
              /\ UNCHANGED <<PDF_VECTORSTORES, uploads>>
         ELSE /\ Len(uploads) < MaxUploads
              /\ PDF_VECTORSTORES' =
                   [PDF_VECTORSTORES EXCEPT
                      ![uid] = StoreIndex(@, FAISS_from_documents(pdf.name, pdf.chunks))]
              /\ tempfiles' = tempfiles \ {uid}
              /\ uploads' = Append(uploads, [user_id |-> uid, doc |-> pdf.name])
              /\ ext' = <<loader, embedder>>
              /\ resp' = Json(200, [status |-> "PDF uploaded and processed successfully."])
      /\ ollama' = <<>>
      /\ UNCHANGED <<users, questions, session, initialized, fmtVars, output_mp3,
                     awaiting, warmVars, threadVars>>

\* Files sent in the field image: none, one PIL cannot open, a picture.
Images == {"none", "broken", "photo"}

\* pytesseract.image_to_string: a text, or an exception with a message.
OcrOutcomes ==
  {[kind |-> "ok", text |-> <<" ", "a", "?", "\n">>, message |-> ""],
   [kind |-> "raises", text |-> <<>>, message |-> "tesseract is not installed"]}

\* Variant: the route without login_required.
ocr_question_open(c, image, ocr) ==
  /\ IF image = "none"
     THEN resp' = Json(400, [error |-> "No image file uploaded."]) /\ ext' = <<>>
     ELSE IF image = "broken"
     THEN resp' = ServerError /\ ext' = <<>>
     ELSE /\ ext' = <<Call("pytesseract", image)>>
          /\ resp' = IF ocr.kind = "ok"
                     THEN Json(200, [question |-> Strip(ocr.text)])
                     ELSE Json(500, [error |-> ocr.message])
  /\ ollama' = <<>>
  /\ UNCHANGED <<users, questions, session, initialized, fmtVars, PDF_VECTORSTORES,
                 tempfiles, output_mp3, awaiting, uploads, warmVars, threadVars>>

\* POST /api/ocr
ocr_question(c, image, ocr) ==
  /\ IF CurrentUser(c) = 0
     THEN resp' = Unauthorized("/api/ocr") /\ ext' = <<>>
     ELSE IF image = "none"
     THEN resp' = Json(400, [error |-> "No image file uploaded."]) /\ ext' = <<>>
     ELSE IF image = "broken"
     THEN resp' = ServerError /\ ext' = <<>>
     ELSE /\ ext' = <<Call("pytesseract", image)>>
          /\ resp' = IF ocr.kind = "ok"
                     THEN Json(200, [question |-> Strip(ocr.text)])
                     ELSE Json(500, [error |-> ocr.message])
  /\ ollama' = <<>>
  /\ UNCHANGED <<users, questions, session, initialized, fmtVars, PDF_VECTORSTORES,
                 tempfiles, output_mp3, awaiting, uploads, warmVars, threadVars>>

\* Files sent in the field audio: none, one that is no audio file, a clip.
AudioClips == {"none", "broken", "clip"}

\* The form field lang of /api/voice and the JSON field lang of /api/tts:
\* missing, or one of these values.
LangHints == {"missing", "en", "hi", "fr"}

\* recognize_google: a text, sr.UnknownValueError or sr.RequestError.
SttOutcomes == {"ok", "UnknownValueError", "RequestError"}

\* request.form.get('lang', 'en')
LangCode(lang) == IF lang = "missing" THEN "en" ELSE lang

\* Variant: every hint but 'en' gives the Hindi locale.
SttLang_not_en(lang_code) == IF lang_code = "en" THEN "en-US" ELSE "hi-IN"

\* stt_lang = 'hi-IN' if lang_code == 'hi' else 'en-US'
SttLang(lang_code) == IF lang_code = "hi" THEN "hi-IN" ELSE "en-US"

\* Variant: without the test for the field audio.
voice_to_text_unchecked(c, audio, lang, stt) ==
  /\ IF CurrentUser(c) = 0
     THEN resp' = Unauthorized("/api/voice") /\ ext' = <<>>
     ELSE IF audio = "broken"
     THEN resp' = ServerError /\ ext' = <<>>
     ELSE /\ ext' = <<Call("recognize_google", SttLang(LangCode(lang)))>>
          /\ resp' = IF stt = "ok" THEN Json(200, [text |-> "transcript"])
                     ELSE IF stt = "UnknownValueError"
                     THEN Json(400, [error |-> "Could not understand audio"])
                     ELSE Json(500, [error |-> "Speech recognition service failed"])
  /\ ollama' = <<>>
  /\ UNCHANGED <<users, questions, session, initialized, fmtVars, PDF_VECTORSTORES,
                 tempfiles, output_mp3, awaiting, uploads, warmVars, threadVars>>

\* POST /api/voice
voice_to_text(c, audio, lang, stt) ==
  /\ IF CurrentUser(c) = 0
     THEN resp' = Unauthorized("/api/voice") /\ ext' = <<>>
     ELSE IF audio = "none"
     THEN resp' = Json(400, [error |-> "No audio file"]) /\ ext' = <<>>
     ELSE IF audio = "broken"
     THEN resp' = ServerError /\ ext' = <<>>
     ELSE /\ ext' = <<Call("recognize_google", SttLang(LangCode(lang)))>>
          /\ resp' = IF stt = "ok" THEN Json(200, [text |-> "transcript"])
                     ELSE IF stt = "UnknownValueError"
                     THEN Json(400, [error |-> "Could not understand audio"])
                     ELSE Json(500, [error |-> "Speech recognition service failed"])
  /\ ollama' = <<>>
  /\ UNCHANGED <<users, questions, session, initialized, fmtVars, PDF_VECTORSTORES,
                 tempfiles, output_mp3, awaiting, uploads, warmVars, threadVars>>

\* gTTS: the synthesis succeeds, the constructor raises, or save() raises
\* after it has opened output.mp3 for writing.
TtsOutcomes == {"ok", "init_error", "save_error"}

\* str(e) of the exception gTTS raises, which speak() logs.
TtsMessage(outcome) ==
  IF outcome = "init_error" THEN "Language not supported" ELSE "Failed to connect"

\* Variant: the exception's message is passed on to the client.
TtsFailure_raw(outcome) == Json(500, [error |-> TtsMessage(outcome)])

\* return jsonify({"error": "TTS failed"}), 500
TtsFailure(outcome) == Json(500, [error |-> "TTS failed"])

\* tts_lang = 'hi' if lang == 'hi' else 'en'
TtsLang(lang) == IF lang = "hi" THEN "hi" ELSE "en"

\* speak(text, lang): whether it succeeded, output.mp3 afterwards and the
\* calls made.
speak(text, lang, outcome) ==
  LET synth == Call("gTTS", TtsLang(lang))
  IN  IF outcome = "ok"
      THEN [ok |-> TRUE,
            file |-> [state |-> "audio", text |-> text, lang |-> TtsLang(lang)],
            calls |-> <<synth, Call("player", "output.mp3")>>]
      ELSE IF outcome = "save_error"
      THEN [ok |-> FALSE, file |-> [state |-> "truncated", text |-> "", lang |-> ""],
            calls |-> <<synth>>]
      ELSE [ok |-> FALSE, file |-> output_mp3, calls |-> <<synth>>]

\* Variant: a file that exists is not written again.
WriteAudio_keep(old, new) == IF old.state = "audio" THEN old ELSE new

\* tts.save("output.mp3")
WriteAudio(old, new) == new

\* POST /api/tts
text_to_speech(c, text, lang, outcome) ==
  /\ IF CurrentUser(c) = 0
     THEN /\ resp' = Unauthorized("/api/tts")
          /\ ext' = <<>>
          /\ UNCHANGED <<output_mp3, awaiting>>
     ELSE IF text = ""
     THEN /\ resp' = Json(400, [error |-> "No text provided"])
          /\ ext' = <<>>
          /\ UNCHANGED <<output_mp3, awaiting>>
     ELSE LET r == speak(text, LangCode(lang), outcome)
          IN  /\ output_mp3' = WriteAudio(output_mp3, r.file)
              /\ ext' = r.calls
              /\ IF r.ok
                 THEN /\ resp' = Json(200, [status |-> "ok", audio_url |-> "/output.mp3",
                                            answer |-> text])
                      /\ awaiting' = [awaiting EXCEPT ![c] = text]
                 ELSE /\ resp' = TtsFailure(outcome)
                      /\ awaiting' = awaiting
  /\ ollama' = <<>>
  /\ UNCHANGED <<users, questions, session, initialized, fmtVars, PDF_VECTORSTORES,
                 tempfiles, uploads, warmVars, threadVars>>

\* GET /output.mp3 (no login required)
serve_audio(c) ==
  /\ resp' = IF output_mp3.state = "missing" THEN ServerError
             ELSE [kind |-> "file", status |-> 200, client |-> c, audio |-> output_mp3]
  /\ ext' = <<>>
  /\ ollama' = <<>>
  /\ UNCHANGED <<users, questions, session, initialized, fmtVars, PDF_VECTORSTORES,
                 tempfiles, output_mp3, awaiting, uploads, warmVars, threadVars>>

Next ==
  \/ \E c \in Clients, u \in Handles, p \in Passwords : signup(c, u, p)
  \/ \E c \in Clients, u \in Handles, p \in LoginPasswords : login(c, u, p)
  \/ \E c \in Clients : logout(c)
  \/ \E c \in Clients :
       \E i \in CallInputsFor(CurrentUser(c) # 0 /\ ~initialized) :
         home(c, i[1], i[2], i[3])
  \/ \E c \in Clients, q \in QuestionInputs :
       \E i \in CallInputsFor(CurrentUser(c) # 0 /\ Strip(q) # <<>>) :
         ask(c, q, i[1], i[2], i[3])
  \/ \E c \in Clients : history(c)

Spec == Init /\ [][Next]_vars

\* ------------------------------------------------ the routes specification
\* Every route of the application, for one browser and one registered user,
\* while the model endpoint is down (the answers of a reachable model are
\* the subject of Spec, uploads by several users that of SpecPdf).

\* The users table after the signups of the two handles.
RegisteredUsers ==
  <<[id |-> 1, username |-> "admin", password |-> generate_password_hash("p1")],
    [id |-> 2, username |-> "Admin", password |-> generate_password_hash("p1")]>>

\* The state of a process started over a users table that holds these
\* users, with the browsers in clients.
StartedWith(rows, clients) ==
  /\ users = rows
  /\ questions = <<>>
  /\ session = [c \in clients |-> 0]
  /\ initialized = FALSE
  /\ ollama = <<>>
  /\ resp = [kind |-> "none", status |-> 0]
  /\ MediaIdle(clients)
  /\ WarmIdle(clients)
  /\ ThreadIdle(clients)
  /\ FmtIdle

RoutesInit == StartedWith(SubSeq(RegisteredUsers, 1, 1), Clients)

\* The inputs of an ask_ollama call while the model endpoint refuses
\* connections.
ModelDown(called) ==
  IF called THEN {<<[kind |-> "transport_error", text |-> <<>>], TRUE, 0>>}
  ELSE {<<NoOutcome, TRUE, 0>>}

\* Texts sent to /api/tts.
TtsTexts == {"", "tA"}

\* Files sent to /api/upload_pdf.
RoutesDocuments == {d \in Documents : d.name # "d2"} \cup {NoFile}

RoutesNext ==
  \/ \E c \in Clients, u \in Handles, p \in LoginPasswords : login(c, u, p)
  \/ \E c \in Clients : logout(c)
  \/ \E c \in Clients :
       \E i \in ModelDown(CurrentUser(c) # 0 /\ ~initialized) : home(c, i[1], i[2], i[3])
  \/ \E c \in Clients, q \in QuestionInputs :
       \E i \in ModelDown(CurrentUser(c) # 0 /\ Strip(q) # <<>>) :
         ask(c, q, i[1], i[2], i[3])
  \/ \E c \in Clients : history(c)
  \/ \E c \in Clients, pdf \in RoutesDocuments, embed \in EmbedOutcomes :
       upload_pdf(c, pdf, embed)
  \/ \E c \in Clients, image \in Images, ocr \in OcrOutcomes : ocr_question(c, image, ocr)
  \/ \E c \in Clients, audio \in AudioClips, lang \in LangHints, stt \in SttOutcomes :
       voice_to_text(c, audio, lang, stt)
  \/ \E c \in Clients, text \in TtsTexts, lang \in LangHints, outcome \in TtsOutcomes :
       text_to_speech(c, text, lang, outcome)
  \/ \E c \in Clients : serve_audio(c)

SpecRoutes == RoutesInit /\ [][RoutesNext]_vars

\* ----------------------------------------------- the warm-up specification
\* Requests of two browsers served by threads of one process: GET / is
\* taken in two steps, the test of qa_bot.initialized and the call of
\* initialize, between which the other thread may run.

Browsers == {"c1", "c2"}

WarmInit == StartedWith(SubSeq(RegisteredUsers, 1, 1), Browsers)

\* The inputs of an ask_ollama call: the model answers with a text, or
\* refuses the connection.
WarmCallInputs(called) ==
  IF called
  THEN {<<[kind |-> "ok", text |-> <<" ", "*", "x", "*", "\n">>], TRUE, t>> : t \in Timestamps}
         \cup {<<[kind |-> "transport_error", text |-> <<>>], TRUE, 0>>}
  ELSE {<<NoOutcome, TRUE, 0>>}

\* Whether a warm-up prompt was answered.
WarmupResult(ret) == IF ret = ModelErrorSentinel THEN "failed" ELSE "ok"

\* Variant: the flag is set after the warm-up, and only when it was answered.
initialize_unless_failed(user_id, outcome, db_ok, now) ==
  LET r == ask_ollama(user_id, HelloPrompt, outcome, db_ok, now)
  IN  [initialized |-> r.ret # ModelErrorSentinel,
       questions |-> r.questions,
       calls |-> <<[prompt |-> HelloPrompt, ret |-> r.ret]>>,
       warmups |-> Append(warmups, WarmupResult(r.ret))]

\* QABot.initialize() for current user user_id (0: none): the flag, the
\* table, the calls of ask_ollama and the warm-up history afterwards.
initialize(user_id, outcome, db_ok, now) ==
  LET r == ask_ollama(user_id, HelloPrompt, outcome, db_ok, now)
  IN  [initialized |-> TRUE,
       questions |-> r.questions,
       calls |-> <<[prompt |-> HelloPrompt, ret |-> r.ret]>>,
       warmups |-> Append(warmups, WarmupResult(r.ret))]

\* GET /, first step: login_required and the test of qa_bot.initialized.
home_enter(c) ==
  /\ pc[c] = Idle
  /\ IF CurrentUser(c) = 0
     THEN /\ resp' = Redirect("login", "")
          /\ ollama' = <<>>
          /\ pc' = pc
     ELSE IF initialized
     THEN /\ resp' = [kind |-> "html", status |-> 200, page |-> "home", flash |-> "",
                       username |-> UsernameOf(CurrentUser(c))]
          /\ ollama' = <<>>
          /\ pc' = pc
     ELSE /\ pc' = [pc EXCEPT ![c] = [at |-> "initialize", user |-> CurrentUser(c)]]
          /\ UNCHANGED <<resp, ollama>>
  /\ UNCHANGED <<users, questions, session, initialized, warmups, fmtVars, mediaVars,
                 threadVars>>

\* GET /, second step: qa_bot.initialize() and the page.
home_initialize(c, outcome, db_ok, now) ==
  /\ pc[c].at = "initialize"
  /\ LET r == initialize(pc[c].user, outcome, db_ok, now)
     IN  /\ Len(r.questions) <= MaxRecords
         /\ initialized' = r.initialized
         /\ questions' = r.questions
         /\ ollama' = r.calls
         /\ warmups' = r.warmups
  /\ resp' = [kind |-> "html", status |-> 200, page |-> "home", flash |-> "",
              username |-> UsernameOf(pc[c].user)]
  /\ pc' = [pc EXCEPT ![c] = Idle]
  /\ UNCHANGED <<users, session, fmtVars, mediaVars, threadVars>>

\* The warm-up at the end of the module, run when the module is imported by
\* a server, before any request and outside any request context.
import_warmup(outcome) ==
  /\ ~initialized
  /\ resp.kind = "none"
  /\ \A c \in DOMAIN pc : pc[c] = Idle
  /\ LET r == initialize(0, outcome, TRUE, 0)
     IN  /\ initialized' = r.initialized
         /\ questions' = r.questions
         /\ ollama' = r.calls
         /\ warmups' = r.warmups
  /\ UNCHANGED <<users, session, resp, pc, fmtVars, mediaVars, threadVars>>

WarmNext ==
  \/ \E c \in Browsers, u \in Handles, p \in Passwords : login(c, u, p)
  \/ \E c \in Browsers : home_enter(c)
  \/ \E c \in Browsers : \E i \in WarmCallInputs(TRUE) : home_initialize(c, i[1], i[2], i[3])
  \/ \E i \in WarmCallInputs(TRUE) : import_warmup(i[1])
  \/ \E c \in Browsers, q \in QuestionInputs :
       \E i \in WarmCallInputs(CurrentUser(c) # 0 /\ Strip(q) # <<>>) :
         ask(c, q, i[1], i[2], i[3])

SpecWarm == WarmInit /\ [][WarmNext]_vars

\* ------------------------------------------------- the audio specification
\* Two registered users, each in a browser of their own, synthesizing and
\* fetching audio.

AudioInit == StartedWith(RegisteredUsers, Browsers)

AudioTexts == {"", "tA", "tB"}

AudioLangs == {"en", "hi"}

AudioNext ==
  \/ \E c \in Browsers, u \in Handles, p \in Passwords : login(c, u, p)
  \/ \E c \in Browsers : logout(c)
  \/ \E c \in Browsers, t \in AudioTexts, l \in AudioLangs, o \in TtsOutcomes :
       text_to_speech(c, t, l, o)
  \/ \E c \in Browsers : serve_audio(c)

SpecAudio == AudioInit /\ [][AudioNext]_vars

\* ------------------------------------------------ the upload specification
\* POST /api/upload_pdf served by threads: the requests of two browsers,
\* of one user or of two, taken statement by statement (save, load, store,
\* remove), between which the other thread may run.

UploadInit == StartedWith(RegisteredUsers, Browsers)

\* The document a file holds, by its name.
DocumentNamed(name) == CHOOSE d \in Documents : d.name = name

\* str(e) when the file at temp_path is gone: PyPDFLoader finds no file to
\* load, os.remove none to remove.
NoSuchFile == "No such file or directory"

\* login_required, the test for the field pdf, current_user.id read for
\* temp_path (lines 229-236).
upload_begin(c, pdf) ==
  /\ pc[c] = Idle
  /\ IF CurrentUser(c) = 0
     THEN resp' = Unauthorized("/api/upload_pdf") /\ pc' = pc
     ELSE IF pdf = NoFile
     THEN resp' = Json(400, [error |-> "No PDF uploaded"]) /\ pc' = pc
     ELSE /\ pc' = [pc EXCEPT ![c] = [at |-> "save", user |-> CurrentUser(c),
                                      sent |-> pdf.name, loaded |-> "none"]]
          /\ resp' = resp
  /\ ext' = <<>>
  /\ ollama' = <<>>
  /\ UNCHANGED <<users, questions, session, initialized, fmtVars, PDF_VECTORSTORES,
                 tempfiles, output_mp3, awaiting, uploads, warmups, threadVars>>

\* pdf_file.save(temp_path)
upload_save(c) ==
  /\ pc[c].at = "save"
  /\ temp_pdf' = [temp_pdf EXCEPT ![TempPath(pc[c].user)] = pc[c].sent]
  /\ tempfiles' = tempfiles \cup {pc[c].user}
  /\ ext' = <<Call("save", TempPath(pc[c].user))>>
  /\ pc' = [pc EXCEPT ![c].at = "load"]
  /\ UNCHANGED <<users, questions, session, initialized, ollama, resp, fmtVars,
                 PDF_VECTORSTORES, output_mp3, awaiting, uploads, warmups, shown>>

\* PyPDFLoader(temp_path).load() and the test for no page: what is read is
\* what the file holds now.
upload_load(c) ==
  /\ pc[c].at = "load"
  /\ LET file == temp_pdf[TempPath(pc[c].user)]
     IN  IF file = "absent"
         THEN /\ resp' = Json(500, [error |-> NoSuchFile])
              /\ pc' = [pc EXCEPT ![c] = Idle]
         ELSE IF DocumentNamed(file).error # ""
         THEN /\ resp' = Json(500, [error |-> DocumentNamed(file).error])
              /\ pc' = [pc EXCEPT ![c] = Idle]
         ELSE IF DocumentNamed(file).pages = 0
         THEN /\ resp' = Json(400, [error |-> "PDF is empty or cannot be read"])
              /\ pc' = [pc EXCEPT ![c] = Idle]
         ELSE /\ resp' = resp
              /\ pc' = [pc EXCEPT ![c].at = "store", ![c].loaded = file]
  /\ ext' = <<Call("PyPDFLoader", TempPath(pc[c].user))>>
  /\ ollama' = <<>>
  /\ UNCHANGED <<users, questions, session, initialized, fmtVars, PDF_VECTORSTORES,
                 tempfiles, output_mp3, awaiting, uploads, warmups, threadVars>>

\* split_documents, HuggingFaceEmbeddings, FAISS.from_documents and the
\* assignment to PDF_VECTORSTORES[current_user.id].
upload_store(c, embed) ==
  /\ pc[c].at = "store"
  /\ IF embed # "ok"
     THEN /\ resp' = Json(500, [error |-> embed])
          /\ pc' = [pc EXCEPT ![c] = Idle]
          /\ UNCHANGED PDF_VECTORSTORES
     ELSE /\ PDF_VECTORSTORES' =
               [PDF_VECTORSTORES EXCEPT
                  ![pc[c].user] =
                     StoreIndex(@, FAISS_from_documents(pc[c].loaded,
                                                        DocumentNamed(pc[c].loaded).chunks))]
          /\ pc' = [pc EXCEPT ![c].at = "remove"]
          /\ resp' = resp
  /\ ext' = <<Call("embeddings", pc[c].loaded)>>
  /\ ollama' = <<>>
  /\ UNCHANGED <<users, questions, session, initialized, fmtVars, tempfiles,
                 output_mp3, awaiting, uploads, warmups, threadVars>>

\* os.remove(temp_path) and the success response; the except of lines
\* 253-254 when the file is gone.
upload_remove(c) ==
  /\ pc[c].at = "remove"
  /\ IF temp_pdf[TempPath(pc[c].user)] = "absent"
     THEN /\ resp' = Json(500, [error |-> NoSuchFile])
          /\ UNCHANGED <<temp_pdf, tempfiles>>
     ELSE /\ temp_pdf' = [temp_pdf EXCEPT ![TempPath(pc[c].user)] = "absent"]
          /\ tempfiles' = tempfiles \ {pc[c].user}
          /\ resp' = Json(200, [status |-> "PDF uploaded and processed successfully."])
  /\ ext' = <<Call("os.remove", TempPath(pc[c].user))>>
  /\ pc' = [pc EXCEPT ![c] = Idle]
  /\ ollama' = <<>>
  /\ UNCHANGED <<users, questions, session, initialized, fmtVars, PDF_VECTORSTORES,
                 output_mp3, awaiting, uploads, warmups, shown>>

\* Documents sent by the two browsers.
UploadDocuments == {d \in Documents : d.name \in {"d1", "d2"}}

UploadNext ==
  \/ \E c \in Browsers, u \in Handles, p \in Passwords : login(c, u, p)
  \/ \E c \in Browsers, d \in UploadDocuments \cup {NoFile} : upload_begin(c, d)
  \/ \E c \in Browsers : upload_save(c)
  \/ \E c \in Browsers : upload_load(c)
  \/ \E c \in Browsers, e \in EmbedOutcomes : upload_store(c, e)
  \/ \E c \in Browsers : upload_remove(c)

SpecUpload == UploadInit /\ [][UploadNext]_vars

\* ------------------------------------------- the cancellation specification
\* POST /api/ask as the page sends it: the submit handler starts the fetch,
\* the Stop button aborts it, the server answers when the model has.

CancelInit == StartedWith(SubSeq(RegisteredUsers, 1, 1), Clients)

\* The submit handler up to the fetch, and the server up to the call of
\* ask_ollama: login_required, the trimmed question, the test for an empty
\* one.
ask_submit(c, question_field) ==
  LET question == Strip(question_field)
  IN  /\ pc[c] = Idle
      /\ IF CurrentUser(c) = 0
         THEN /\ resp' = Redirect("login", "")
              /\ shown' = [shown EXCEPT ![c] = "error"]
              /\ pc' = pc
         ELSE IF question = <<>>
         THEN /\ resp' = Json(400, [message |-> "No question provided."])
              /\ shown' = [shown EXCEPT ![c] = "error"]
              /\ pc' = pc
         ELSE /\ resp' = resp
              /\ shown' = [shown EXCEPT ![c] = "spinner"]
              /\ pc' = [pc EXCEPT ![c] = [at |-> "model", user |-> CurrentUser(c),
                                          question |-> question]]
      /\ ollama' = <<>>
      /\ UNCHANGED <<users, questions, session, initialized, fmtVars, mediaVars,
                     warmups, temp_pdf>>

\* The Stop button while the fetch is pending: currentController.abort(),
\* the handler's catch shows "Request was cancelled."
stop(c) ==
  /\ shown[c] = "spinner"
  /\ shown' = [shown EXCEPT ![c] = "cancelled"]
  /\ UNCHANGED <<users, questions, session, initialized, ollama, resp, fmtVars,
                 mediaVars, warmVars, temp_pdf>>

\* Variant: the server gives the request up when its client has gone.
ask_complete_aborting(c, outcome, db_ok, now) ==
  /\ pc[c].at = "model"
  /\ IF shown[c] = "spinner"
     THEN LET r == ask_ollama(pc[c].user, pc[c].question, outcome, db_ok, now)
          IN  /\ Len(r.questions) <= MaxRecords
              /\ questions' = r.questions
              /\ ollama' = <<[prompt |-> pc[c].question, ret |-> r.ret]>>
              /\ resp' = Json(200, [heading |-> Heading(pc[c].question), body |-> Body(r.ret)])
              /\ shown' = [shown EXCEPT ![c] = "answer"]
     ELSE UNCHANGED <<questions, ollama, resp, shown>>
  /\ pc' = [pc EXCEPT ![c] = Idle]
  /\ UNCHANGED <<users, session, initialized, fmtVars, mediaVars, warmups, temp_pdf>>

\* The rest of the request: ask_ollama, the heading and the body, and the
\* response, which reaches the page only when its fetch is still pending.
ask_complete(c, outcome, db_ok, now) ==
  /\ pc[c].at = "model"
  /\ LET r == ask_ollama(pc[c].user, pc[c].question, outcome, db_ok, now)
     IN  /\ Len(r.questions) <= MaxRecords
         /\ questions' = r.questions
         /\ ollama' = <<[prompt |-> pc[c].question, ret |-> r.ret]>>
         /\ IF shown[c] = "spinner"
            THEN /\ resp' = Json(200, [heading |-> Heading(pc[c].question),
                                       body |-> Body(r.ret)])
                 /\ shown' = [shown EXCEPT ![c] = "answer"]
            ELSE UNCHANGED <<resp, shown>>
  /\ pc' = [pc EXCEPT ![c] = Idle]
  /\ UNCHANGED <<users, session, initialized, fmtVars, mediaVars, warmups, temp_pdf>>

CancelNext ==
  \/ \E c \in Clients, u \in Handles, p \in Passwords : login(c, u, p)
  \/ \E c \in Clients, q \in QuestionInputs : ask_submit(c, q)
  \/ \E c \in Clients : stop(c)
  \/ \E c \in Clients : \E i \in CallInputs : ask_complete(c, i[1], i[2], i[3])

SpecCancel == CancelInit /\ [][CancelNext]_vars

\* ------------------------------------------------ the faults specification
\* The API routes under failing libraries and services: the model replying
\* with a text, with a null response or not at all, files that cannot be
\* decoded, engines that raise.

FaultsInit == StartedWith(SubSeq(RegisteredUsers, 1, 1), Clients)

FaultCallInputs(called) ==
  IF called
  THEN {<<[kind |-> "ok", text |-> <<" ", "*", "x", "*", "\n">>], TRUE, t>> : t \in Timestamps}
         \cup {<<NullOutcome, TRUE, t>> : t \in Timestamps}
         \cup {<<[kind |-> "transport_error", text |-> <<>>], TRUE, 0>>}
  ELSE {<<NoOutcome, TRUE, 0>>}

FaultsNext ==
  \/ \E c \in Clients, u \in Handles, p \in Passwords : login(c, u, p)
  \/ \E c \in Clients, q \in QuestionInputs :
       \E i \in FaultCallInputs(CurrentUser(c) # 0 /\ Strip(q) # <<>>) :
         ask(c, q, i[1], i[2], i[3])
  \/ \E c \in Clients, pdf \in RoutesDocuments, embed \in EmbedOutcomes :
       upload_pdf(c, pdf, embed)
  \/ \E c \in Clients, image \in Images, ocr \in OcrOutcomes : ocr_question(c, image, ocr)
  \/ \E c \in Clients, audio \in AudioClips, stt \in SttOutcomes :
       voice_to_text(c, audio, "en", stt)
  \/ \E c \in Clients, t \in TtsTexts, o \in TtsOutcomes : text_to_speech(c, t, "en", o)

SpecFaults == FaultsInit /\ [][FaultsNext]_vars

\* ------------------------------------------------ the answer specification
\* One user uploading documents and asking questions, the request to
\* /api/ask carrying the field lang of the page.

AnswerInit == StartedWith(SubSeq(RegisteredUsers, 1, 1), Clients)

\* POST /api/ask with the field lang: it is read (line 185) and not used.
ask_with_lang(c, question_field, lang, outcome, db_ok, now) ==
  LET lang_code == LangCode(lang)
  IN  ask(c, question_field, outcome, db_ok, now)

AnswerDocuments == {d \in Documents : d.name \in {"d1", "d2"}}

AnswerNext ==
  \/ \E c \in Clients, u \in Handles, p \in Passwords : login(c, u, p)
  \/ \E c \in Clients, pdf \in AnswerDocuments, embed \in EmbedOutcomes :
       upload_pdf(c, pdf, embed)
  \/ \E c \in Clients, q \in QuestionInputs, lang \in LangHints :
       \E i \in WarmCallInputs(CurrentUser(c) # 0 /\ Strip(q) # <<>>) :
         ask_with_lang(c, q, lang, i[1], i[2], i[3])

SpecAnswer == AnswerInit /\ [][AnswerNext]_vars

\* ------------------------------------------------ the signup specification
\* POST /signup served by threads for two browsers: the form is read and
\* the password hashed, then the INSERT runs as one statement of the
\* database, which holds the UNIQUE constraint on username.

SignupInit == StartedWith(<<>>, Browsers)

\* Variant: a users table without the UNIQUE constraint.
InsertUser_no_unique(rows, username, password) ==
  [ok |-> TRUE,
   rows |-> Append(rows, [id |-> Len(rows) + 1, username |-> username,
                          password |-> password])]

\* INSERT INTO users (username, password) VALUES (?, ?) on rows: the row is
\* added with the next id, or sqlite3.IntegrityError is raised when a row
\* has the username.
InsertUser(rows, username, password) ==
  IF \E k \in 1..Len(rows) : rows[k].username = username
  THEN [ok |-> FALSE, rows |-> rows]
  ELSE [ok |-> TRUE,
        rows |-> Append(rows, [id |-> Len(rows) + 1, username |-> username,
                               password |-> password])]

\* The form fields read and the password hashed (lines 155-156); free notes
\* whether the handle was free when the request arrived.
signup_begin(c, username, password) ==
  /\ pc[c].at \in {"idle", "done"}
  /\ pc' = [pc EXCEPT ![c] = [at |-> "insert", user |-> 0, username |-> username,
                              password |-> generate_password_hash(password),
                              free |-> UserRowsByName(username) = {}]]
  /\ UNCHANGED <<users, questions, session, initialized, ollama, resp, fmtVars,
                 mediaVars, warmups, threadVars>>

\* The INSERT and the response (lines 157-164); the request stays on
\* record as done until the browser's next one.
signup_insert(c) ==
  /\ pc[c].at = "insert"
  /\ LET r == InsertUser(users, pc[c].username, pc[c].password)
     IN  /\ users' = r.rows
         /\ resp' = IF r.ok THEN Redirect("login", "Account created! Please login.")
                    ELSE Page("signup", "Username already taken.")
  /\ pc' = [pc EXCEPT ![c].at = "done"]
  /\ ollama' = <<>>
  /\ UNCHANGED <<questions, session, initialized, fmtVars, mediaVars, warmups, threadVars>>

SignupNext ==
  \/ \E c \in Browsers, u \in Handles, p \in Passwords : signup_begin(c, u, p)
  \/ \E c \in Browsers : signup_insert(c)
  \/ \E c \in Browsers, u \in Handles, p \in Passwords : login(c, u, p)

SpecSignup == SignupInit /\ [][SignupNext]_vars

\* ---------------------------------------------- the accounts specification
\* Signups with two passwords, logins and logouts, from an empty users table.

AccountPasswords == {"p1", "p2"}

AccountsNext ==
  \/ \E c \in Clients, u \in Handles, p \in AccountPasswords : signup(c, u, p)
  \/ \E c \in Clients, u \in Handles, p \in AccountPasswords : login(c, u, p)
  \/ \E c \in Clients : logout(c)

SpecAccounts == Init /\ [][AccountsNext]_vars

\* --------------------------------------------------- the PDF specification
\* Uploads by two registered users who take turns at one browser.

PdfInit == StartedWith(RegisteredUsers, Clients)

PdfNext ==
  \/ \E c \in Clients, u \in Handles, p \in LoginPasswords : login(c, u, p)
  \/ \E c \in Clients : logout(c)
  \/ \E c \in Clients, pdf \in Documents \cup {NoFile}, embed \in EmbedOutcomes :
       upload_pdf(c, pdf, embed)

SpecPdf == PdfInit /\ [][PdfNext]_vars

\* ------------------------------------------- the formatter specification
\* The answer formatter of ask() (its lines on the question, the heading and
\* the body) applied to every text made of at most MaxTokens tokens.

RECURSIVE TokenStrings(_, _)
TokenStrings(tokens, n) ==
  IF n = 0 THEN {<<>>}
  ELSE TokenStrings(tokens, n - 1)
         \cup {s \o t : s \in TokenStrings(tokens, n - 1), t \in tokens}

QuestionTokens == {<<"a">>, <<" ">>, <<"?">>, AnswerLiteral}

AnswerTokens ==
  {<<"a">>, <<" ">>, <<"\n">>, <<"-">>, <<"-", " ">>, <<"*", " ">>, <<"U+2022", " ">>, <<"_">>,
   Fence, <<"[", "a">>, <<"]", "(", "b", ")">>, <<"!">>}

\* "**Bold** and _em_\n\n\n\nNext"
BoldExample ==
  <<"*", "*", "B", "o", "l", "d", "*", "*", " ", "a", "n", "d", " ", "_", "e", "m", "_",
    "\n", "\n", "\n", "\n", "N", "e", "x", "t">>

\* "[[a](b)](c)"
NestedLinkExample == <<"[", "[", "a", "]", "(", "b", ")", "]", "(", "c", ")">>

\* "What is DNA? Explain."
DnaExample ==
  <<"W", "h", "a", "t", " ", "i", "s", " ", "D", "N", "A", "?", " ",
    "E", "x", "p", "l", "a", "i", "n", ".">>

\* "x\n* b\n- c"
BulletExample == <<"x", "\n", "*", " ", "b", "\n", "-", " ", "c">>

\* "a\n- \n- \nb": two list items without text between two lines
BlankItemsExample == <<"a", "\n", "-", " ", "\n", "-", " ", "\n", "b">>

QuestionTexts == TokenStrings(QuestionTokens, MaxTokens) \cup {DnaExample}

AnswerTexts ==
  TokenStrings(AnswerTokens, MaxTokens)
    \cup {BoldExample, NestedLinkExample, BulletExample, BlankItemsExample}

FmtInit ==
  /\ AppInit
  /\ fmtIn \in {[kind |-> "question", text |-> t] : t \in QuestionTexts}
               \cup {[kind |-> "answer", text |-> t] : t \in AnswerTexts}
  /\ fmtOut = [done |-> FALSE]

appVars == <<users, questions, session, initialized, ollama, resp>>

\* question = data.get("question", "").strip(); the rejection of an empty
\* one; the heading of an accepted one.
format_question ==
  /\ fmtIn.kind = "question"
  /\ ~fmtOut.done
  /\ fmtOut' = LET question == Strip(fmtIn.text)
               IN  IF question = <<>>
                   THEN [done |-> TRUE, accepted |-> FALSE]
                   ELSE [done |-> TRUE, accepted |-> TRUE, question |-> question,
                         heading |-> Heading(question)]
  /\ UNCHANGED <<fmtIn, appVars, mediaVars, warmVars, threadVars>>

\* body = clean_markdown(raw_answer.strip())
format_answer ==
  /\ fmtIn.kind = "answer"
  /\ ~fmtOut.done
  /\ fmtOut' = [done |-> TRUE, body |-> Body(fmtIn.text)]
  /\ UNCHANGED <<fmtIn, appVars, mediaVars, warmVars, threadVars>>

FmtNext == format_question \/ format_answer

SpecFmt == FmtInit /\ [][FmtNext]_vars

\* ----------------------------------------------- vocabulary of the claims
\* Stated without the operators that model the code, so that a claim does
\* not follow from the definitions it is checked against.

\* The text is empty or consists only of whitespace.
IsBlank(s) == \A k \in 1..Len(s) : s[k] \in Whitespace

\* s without its leading and trailing whitespace.
Trimmed(s) ==
  IF IsBlank(s) THEN <<>>
  ELSE LET first == CHOOSE i \in 1..Len(s) :
                      s[i] \notin Whitespace /\ \A j \in 1..(i - 1) : s[j] \in Whitespace
           last == CHOOSE i \in 1..Len(s) :
                     s[i] \notin Whitespace /\ \A j \in (i + 1)..Len(s) : s[j] \in Whitespace
       IN  [k \in 1..(last - first + 1) |-> s[first + k - 1]]

\* The part of s before its first c: all of s when c does not occur in it.
Before(s, c) ==
  LET n == CHOOSE k \in 0..Len(s) :
             /\ \A j \in 1..k : s[j] # c
             /\ k = Len(s) \/ s[k + 1] = c
  IN  [k \in 1..n |-> s[k]]

\* The inputs of one ask_ollama call, for every request that makes or may
\* make one.
AnyCallInputs == CallInputs \cup CallInputsFor(FALSE)

\* --------------------------------------------------------------- claims

\* C1: a POST /api/ask by an authenticated user whose question is empty or
\* only whitespace is answered with status 400 and a JSON message field,
\* makes no call of the model and leaves the history records as they were.
C1_EmptyQuestionRejected ==
  [][\A c \in Clients, q \in QuestionInputs, i \in AnyCallInputs :
       (CurrentUser(c) # 0 /\ IsBlank(q) /\ ask(c, q, i[1], i[2], i[3]))
         => /\ resp'.kind = "json"
            /\ resp'.status = 400
            /\ "message" \in DOMAIN resp'.json
            /\ ollama' = <<>>
            /\ questions' = questions]_vars

\* C1 witness: an empty question was just rejected while the history holds
\* a record.
C1_Witness ==
  /\ resp.kind = "json"
  /\ resp.status = 400
  /\ ollama = <<>>
  /\ questions # <<>>

\* What C2 calls the text: the trimmed question before its first '?',
\* trimmed again.
QuestionText(question_field) == Trimmed(Before(Trimmed(question_field), "?"))

\* C2 as stated: the heading of an accepted question is the text, and it is
\* the literal "Answer" exactly when the text is empty.
C2_HeadingAnswerExactlyWhenEmpty ==
  (fmtIn.kind = "question" /\ fmtOut.done /\ fmtOut.accepted)
    => /\ QuestionText(fmtIn.text) # <<>> => fmtOut.heading = QuestionText(fmtIn.text)
       /\ fmtOut.heading = AnswerLiteral <=> QuestionText(fmtIn.text) = <<>>

\* C2 as amended: the heading of an accepted question is the text of the
\* trimmed question before its first '?' (all of it when it has none),
\* trimmed, and the literal "Answer" whenever that text is empty; a question
\* whose text reads "Answer" has that heading too. "What is DNA? Explain."
\* has the heading "What is DNA".
C2_Heading ==
  (fmtIn.kind = "question" /\ fmtOut.done)
    => /\ fmtOut.accepted <=> ~IsBlank(fmtIn.text)
       /\ fmtOut.accepted =>
            fmtOut.heading = IF QuestionText(fmtIn.text) = <<>> THEN AnswerLiteral
                             ELSE QuestionText(fmtIn.text)
       /\ fmtIn.text = DnaExample =>
            fmtOut.heading = <<"W", "h", "a", "t", " ", "i", "s", " ", "D", "N", "A">>

\* C2 witness: an accepted question with a '?' and no text before it got the
\* heading "Answer".
C2_Witness ==
  /\ fmtIn.kind = "question"
  /\ fmtOut.done
  /\ fmtOut.accepted
  /\ \E k \in 1..Len(fmtIn.text) : fmtIn.text[k] = "?"
  /\ \E k \in 1..Len(fmtIn.text) : fmtIn.text[k] = "a"
  /\ fmtOut.heading = AnswerLiteral

\* Link markup is left in s: a '[', a text without ']' that is not empty,
\* "](", a target without ')' that is not empty, and ')'.
HasLink(s) ==
  \E i, k, m \in 1..Len(s) :
    /\ i + 1 < k /\ k + 2 < m
    /\ s[i] = "[" /\ s[k] = "]" /\ s[k + 1] = "(" /\ s[m] = ")"
    /\ \A j \in (i + 1)..(k - 1) : s[j] # "]"
    /\ \A j \in (k + 2)..(m - 1) : s[j] # ")"

\* Image markup is left in s: "![", an alt text without ']', "](", a target
\* without ')', and ')'.
HasImage(s) ==
  \E i, k, m \in 1..Len(s) :
    /\ i + 1 < k /\ k + 1 < m
    /\ s[i] = "!" /\ s[i + 1] = "[" /\ s[k] = "]" /\ s[k + 1] = "(" /\ s[m] = ")"
    /\ \A j \in (i + 2)..(k - 1) : s[j] # "]"
    /\ \A j \in (k + 2)..(m - 1) : s[j] # ")"

\* A line of s still starts, after optional blanks, with a bullet glyph that
\* a blank of the same line follows.
HasBulletLine(s) ==
  \E p, g \in 1..Len(s) :
    /\ p <= g /\ g < Len(s)
    /\ p = 1 \/ s[p - 1] = "\n"
    /\ \A j \in p..(g - 1) : s[j] \in Whitespace \ {"\n"}
    /\ s[g] \in BulletGlyphs
    /\ s[g + 1] \in Whitespace \ {"\n"}

\* C3 as stated: cleaning is idempotent, clean_markdown(clean_markdown(t))
\* = clean_markdown(t) for every raw answer text t.
C3_CleanIdempotent ==
  (fmtIn.kind = "answer" /\ fmtOut.done)
    => /\ clean_markdown(clean_markdown(fmtIn.text)) = clean_markdown(fmtIn.text)
       /\ clean_markdown(fmtOut.body) = fmtOut.body

\* C3 as amended: cleaning a cleaned text again changes nothing exactly when
\* the cleaned text keeps no link or image markup and no line that starts
\* with a bullet glyph and whitespace; "- - a" cleans to "- a" and then to
\* "a", and "[[a](b)](c)" to "[a](c)" and then to "a".
C3_CleanIdempotentUnlessMarkupLeft ==
  (fmtIn.kind = "answer" /\ fmtOut.done)
    => /\ LET once == clean_markdown(fmtIn.text)
          IN  clean_markdown(once) = once
                <=> ~(HasLink(once) \/ HasImage(once) \/ HasBulletLine(once))
       /\ clean_markdown(fmtOut.body) = fmtOut.body
            <=> ~(HasLink(fmtOut.body) \/ HasImage(fmtOut.body) \/ HasBulletLine(fmtOut.body))
       /\ fmtIn.text = <<"-", " ", "-", " ", "a">> =>
            fmtOut.body = <<"-", " ", "a">> /\ clean_markdown(fmtOut.body) = <<"a">>
       /\ fmtIn.text = NestedLinkExample =>
            fmtOut.body = <<"[", "a", "]", "(", "c", ")">> /\ clean_markdown(fmtOut.body) = <<"a">>

\* C3 witness: a cleaned text that differs from its raw text and that a
\* second cleaning leaves as it is.
C3_Witness ==
  /\ fmtIn.kind = "answer"
  /\ fmtOut.done
  /\ fmtIn.text = <<"[", "a", "]", "(", "b", ")", "_">>
  /\ fmtOut.body = <<"a">>
  /\ clean_markdown(fmtOut.body) = fmtOut.body

\* C4: the body has no '*', '_' or backtick, no run of three or more
\* newlines and no leading or trailing whitespace; "**Bold** and _em_",
\* four newlines, "Next" gives "Bold and em", two newlines, "Next".
C4_BodyPlain ==
  (fmtIn.kind = "answer" /\ fmtOut.done)
    => /\ \A k \in 1..Len(fmtOut.body) : fmtOut.body[k] \notin {"*", "_", Backtick}
       /\ \A k \in 1..(Len(fmtOut.body) - 2) :
            ~(fmtOut.body[k] = "\n" /\ fmtOut.body[k + 1] = "\n" /\ fmtOut.body[k + 2] = "\n")
       /\ fmtOut.body # <<>> =>
            fmtOut.body[1] \notin Whitespace /\ fmtOut.body[Len(fmtOut.body)] \notin Whitespace
       /\ fmtIn.text = BoldExample =>
            fmtOut.body = <<"B", "o", "l", "d", " ", "a", "n", "d", " ", "e", "m",
                            "\n", "\n", "N", "e", "x", "t">>

\* C4 witness: the example of the claim has been formatted.
C4_Witness ==
  /\ fmtIn.kind = "answer"
  /\ fmtOut.done
  /\ fmtIn.text = BoldExample
  /\ Len(fmtOut.body) = 17

\* The lines of s, split at its newlines.
RECURSIVE LinesOf(_)
LinesOf(s) ==
  IF \A k \in 1..Len(s) : s[k] # "\n" THEN <<s>>
  ELSE LET n == CHOOSE k \in 1..Len(s) : s[k] = "\n" /\ \A j \in 1..(k - 1) : s[j] # "\n"
       IN  <<[k \in 1..(n - 1) |-> s[k]]>> \o LinesOf([k \in 1..(Len(s) - n) |-> s[n + k]])

\* A line made of one bullet glyph, one blank and then plain text.
IsBulletItem(line) ==
  /\ Len(line) >= 3
  /\ line[1] \in BulletGlyphs
  /\ line[2] = " "
  /\ \A k \in 3..Len(line) : line[k] \in {"a", "b", "c", "x"}

\* C5 as stated: every line of the raw answer that is one bullet glyph,
\* whitespace and text comes out as that text alone, for the asterisk as for
\* the other glyphs and for lines other than the first (the raw answers
\* taken are those whose lines and the body's correspond one to one).
C5_BulletStripped ==
  (fmtIn.kind = "answer" /\ fmtOut.done
     /\ Len(LinesOf(fmtIn.text)) = Len(LinesOf(fmtOut.body)))
    => \A k \in 1..Len(LinesOf(fmtIn.text)) :
         IsBulletItem(LinesOf(fmtIn.text)[k])
           => LinesOf(fmtOut.body)[k] =
                [j \in 1..(Len(LinesOf(fmtIn.text)[k]) - 2) |-> LinesOf(fmtIn.text)[k][j + 2]]

\* C6: whenever the model call of ask_ollama fails (transport error,
\* non-success status or undecodable reply), ask_ollama returns exactly the
\* sentinel, raises nothing (its caller goes on to its usual response) and
\* no history record is written.
C6_ModelFailureGivesSentinel ==
  [][/\ \A c \in Clients, q \in QuestionInputs, o \in ErrorOutcomes :
          (CurrentUser(c) # 0 /\ ~IsBlank(q) /\ ask(c, q, o, TRUE, 0))
            => /\ Len(ollama') = 1
               /\ ollama'[1].ret = ModelErrorSentinel
               /\ questions' = questions
               /\ resp'.kind = "json" /\ resp'.status = 200
     /\ \A c \in Clients, o \in ErrorOutcomes :
          (CurrentUser(c) # 0 /\ ~initialized /\ home(c, o, TRUE, 0))
            => /\ Len(ollama') = 1
               /\ ollama'[1].ret = ModelErrorSentinel
               /\ questions' = questions
               /\ resp'.kind = "html" /\ resp'.page = "home"]_vars

\* C6 witness: a question was put to the model, the call failed and the
\* sentinel came back, the history holding a record of an earlier question.
C6_Witness ==
  /\ Len(ollama) = 1
  /\ ollama[1].prompt = <<"a", "?">>
  /\ ollama[1].ret = ModelErrorSentinel
  /\ questions # <<>>

\* The record a request by user_id appends for question_field when the
\* model's reply carries answer.
RecordOf(user_id, question_field, answer, now) ==
  [user_id |-> user_id, question |-> Trimmed(question_field), answer |-> answer,
   timestamp |-> now]

\* C7 as stated: each /api/ask by an authenticated user whose model call
\* succeeds appends exactly one record, owned by that user, with the trimmed
\* question and the raw text the model returned; no request appends more.
C7_OneRecordPerAnswer ==
  [][/\ \A c \in Clients, q \in QuestionInputs, i \in CallInputs :
          (CurrentUser(c) # 0 /\ ~IsBlank(q) /\ i[1] \in SuccessOutcomes
             /\ ask(c, q, i[1], i[2], i[3]))
            => \E t \in Timestamps :
                 questions' = Append(questions, RecordOf(CurrentUser(c), q, i[1].text, t))
     /\ Len(questions') <= Len(questions) + 1]_vars

\* The value ask_ollama returns for a reply: its response text, or the
\* default when the reply has no response field.
ReplyText(outcome) == IF outcome.kind = "absent" THEN NoResponseLiteral ELSE outcome.text

\* C7 as amended: each /api/ask by an authenticated user whose model call
\* succeeds appends exactly one record when the insert succeeds and none when
\* it fails; the record is owned by that user and holds the trimmed question
\* sent to the model and the text ask_ollama returned (the reply's raw
\* response text, not the cleaned body, or "No response received." when the
\* reply has no response field); no request appends more than one record,
\* and none changes an earlier one.
C7_OneRecordPerStoredAnswer ==
  [][/\ \A c \in Clients, q \in QuestionInputs, i \in CallInputs :
          (CurrentUser(c) # 0 /\ ~IsBlank(q) /\ i[1] \in SuccessOutcomes
             /\ ask(c, q, i[1], i[2], i[3]))
            => /\ ollama' = <<[prompt |-> Trimmed(q), ret |-> ReplyText(i[1])]>>
               /\ questions' =
                    IF i[2]
                    THEN Append(questions, RecordOf(CurrentUser(c), q, ReplyText(i[1]), i[3]))
                    ELSE questions
     /\ Len(questions') <= Len(questions) + 1
     /\ \A k \in 1..Len(questions) : questions'[k] = questions[k]]_vars

\* C7 witness: a question was just answered and recorded, and the record
\* holds the raw answer where the response holds the cleaned one.
C7_Witness ==
  /\ resp.kind = "json" /\ resp.status = 200
  /\ Len(ollama) = 1
  /\ questions # <<>>
  /\ questions[Len(questions)].question = <<"a", "?">>
  /\ questions[Len(questions)].answer = <<" ", "*", "x", "*", "\n">>
  /\ questions[Len(questions)].answer = ollama[1].ret
  /\ resp.json.body = <<"x">>

\* C8 as stated: a failure path yields a JSON object with an error field and
\* a non-2xx status, or a flash-message redirect or re-render; a failed model
\* call during /api/ask is not answered with a 2xx {heading, body}, and the
\* empty-question rejection carries an error field.
IsErrorResponse(r) ==
  \/ r.kind = "json" /\ "error" \in DOMAIN r.json /\ r.status \notin 200..299
  \/ r.kind \in {"redirect", "html"} /\ r.flash # ""

OwnedBy(user_id) == {k \in 1..Len(questions) : questions[k].user_id = user_id}

\* C9: the /history listing of the account named exactly 'admin' holds the
\* records of all users, each with its owner's handle; the listing of any
\* other account holds exactly the records that account owns.
C9_HistoryScope ==
  [][\A c \in Clients :
       (CurrentUser(c) # 0 /\ history(c))
         => /\ resp'.kind = "html" /\ resp'.page = "history"
            /\ Len(resp'.ids) = Cardinality({resp'.ids[k] : k \in 1..Len(resp'.ids)})
            /\ Len(resp'.history) = Len(resp'.ids)
            /\ IF UsernameOf(CurrentUser(c)) = "admin"
               THEN /\ {resp'.ids[k] : k \in 1..Len(resp'.ids)} = 1..Len(questions)
                    /\ \A k \in 1..Len(resp'.ids) :
                         resp'.history[k] =
                           <<UsernameOf(questions[resp'.ids[k]].user_id),
                             questions[resp'.ids[k]].question,
                             questions[resp'.ids[k]].answer,
                             questions[resp'.ids[k]].timestamp>>
               ELSE /\ {resp'.ids[k] : k \in 1..Len(resp'.ids)} = OwnedBy(CurrentUser(c))
                    /\ \A k \in 1..Len(resp'.ids) :
                         resp'.history[k] =
                           <<questions[resp'.ids[k]].question,
                             questions[resp'.ids[k]].answer,
                             questions[resp'.ids[k]].timestamp>>]_vars

\* C9 witness: an account other than admin was shown its own record while
\* the store holds a record of another user.
C9_Witness ==
  /\ resp.kind = "html" /\ resp.page = "history"
  /\ ~resp.is_admin
  /\ Len(resp.ids) = 1
  /\ Len(questions) = 2
  /\ questions[1].user_id # questions[2].user_id

\* The timestamp shown in row k of a history listing.
ShownTimestamp(r, k) == r.history[k][Len(r.history[k])]

\* C10 as stated: of any two records of a /history listing the one shown
\* first has the strictly later timestamp.
C10_StrictlyDescending ==
  (resp.kind = "html" /\ resp.page = "history")
    => \A i, j \in 1..Len(resp.history) :
         i < j => ShownTimestamp(resp, i) > ShownTimestamp(resp, j)

\* What the listing does keep: the record shown first has the later or the
\* same timestamp.
ListingDescending ==
  (resp.kind = "html" /\ resp.page = "history")
    => \A i, j \in 1..Len(resp.history) :
         i < j => ShownTimestamp(resp, i) >= ShownTimestamp(resp, j)

\* A listing of two records with different timestamps.
C10_ListingOfTwo ==
  /\ resp.kind = "html" /\ resp.page = "history"
  /\ Len(resp.history) = 2
  /\ ShownTimestamp(resp, 1) > ShownTimestamp(resp, 2)

\* The places in the upload history of the successful uploads of user u.
UploadsOf(u) == {k \in 1..Len(uploads) : uploads[k].user_id = u}

\* The chunks of the document of that name.
ChunksOf(name) == (CHOOSE d \in Documents : d.name = name).chunks

\* C11: after any sequence of successful uploads each user has at most one
\* index, none before the user's first upload and otherwise the index of
\* the chunks of the user's most recent successful upload alone; nothing of
\* an earlier document is in it.
C11_IndexIsLastUpload ==
  \A u \in UserIds :
    IF UploadsOf(u) = {}
    THEN PDF_VECTORSTORES[u] = NoIndex
    ELSE LET last == CHOOSE k \in UploadsOf(u) : \A j \in UploadsOf(u) : j <= k
         IN  /\ PDF_VECTORSTORES[u].doc = uploads[last].doc
             /\ PDF_VECTORSTORES[u].chunks = ChunksOf(uploads[last].doc)

\* C11 witness: a user uploaded d1 and then d2, and the user's index holds
\* the chunk of d2 only, the other user having no index.
C11_Witness ==
  /\ uploads = <<[user_id |-> 1, doc |-> "d1"], [user_id |-> 1, doc |-> "d2"]>>
  /\ PDF_VECTORSTORES[1].chunks = {"d2.1"}
  /\ PDF_VECTORSTORES[2] = NoIndex

\* C12: a signup POST whose handle already exists leaves the users table as
\* it was (the row of the handle keeps its id and its hash, no row is
\* added), flashes 'Username already taken.' and renders the signup page
\* with an ordinary response.
C12_DuplicateSignupRejected ==
  [][\A c \in Clients, u \in Handles, p \in AccountPasswords :
       ((\E k \in 1..Len(users) : users[k].username = u) /\ signup(c, u, p))
         => /\ users' = users
            /\ resp'.kind = "html" /\ resp'.status = 200
            /\ resp'.page = "signup"
            /\ resp'.flash = "Username already taken."
            /\ session' = session]_vars

\* C12 witness: a signup was just refused while both handles are taken, with
\* different passwords.
C12_Witness ==
  /\ resp.kind = "html" /\ resp.page = "signup"
  /\ resp.flash = "Username already taken."
  /\ Len(users) = 2
  /\ users[1].password # users[2].password

\* A request is refused: the redirect to the login page, no call of the
\* model, and users, history, indexes, temp files, output.mp3 and the
\* warm-up all as they were.
Refused ==
  /\ resp'.kind = "redirect" /\ resp'.to = "login"
  /\ ollama' = <<>>
  /\ UNCHANGED <<users, questions, session, initialized, warmups,
                 PDF_VECTORSTORES, tempfiles, output_mp3, awaiting, uploads>>

\* C13: a request without an authenticated session to /, /api/ask,
\* /api/upload_pdf, /api/ocr, /api/voice, /api/tts or /history is redirected
\* to the login page and changes nothing: no model call, no history record,
\* no index change, no audio file written, no external service called; so
\* too for a session that has logged out.
C13_UnauthenticatedRefused ==
  [][\A c \in Clients :
       CurrentUser(c) = 0 =>
         /\ \A i \in AnyCallInputs : home(c, i[1], i[2], i[3]) => Refused /\ ext' = ext
         /\ \A q \in QuestionInputs, i \in AnyCallInputs :
              ask(c, q, i[1], i[2], i[3]) => Refused /\ ext' = ext
         /\ history(c) => Refused /\ ext' = ext
         /\ \A pdf \in Documents \cup {NoFile}, embed \in EmbedOutcomes :
              upload_pdf(c, pdf, embed) => Refused /\ ext' = <<>>
         /\ \A image \in Images, ocr \in OcrOutcomes :
              ocr_question(c, image, ocr) => Refused /\ ext' = <<>>
         /\ \A audio \in AudioClips, lang \in LangHints, stt \in SttOutcomes :
              voice_to_text(c, audio, lang, stt) => Refused /\ ext' = <<>>
         /\ \A text \in TtsTexts, lang \in LangHints, outcome \in TtsOutcomes :
              text_to_speech(c, text, lang, outcome) => Refused /\ ext' = <<>>]_vars

\* C13 witness: a session that had uploaded a PDF and synthesized a text
\* logged out, and its next upload was refused, index and audio staying.
C13_Witness ==
  /\ resp.kind = "redirect" /\ resp.to = "login"
  /\ "next" \in DOMAIN resp /\ resp.next = "/api/upload_pdf"
  /\ \A c \in Clients : session[c] = 0
  /\ PDF_VECTORSTORES[1] # NoIndex
  /\ output_mp3.state = "audio"

\* The response is a JSON error with this status and this message.
IsJsonError(r, status, message) ==
  /\ r.kind = "json"
  /\ r.status = status
  /\ "error" \in DOMAIN r.json
  /\ r.json.error = message

\* C14 as stated: a failure of PDF processing, of OCR or of text-to-speech
\* returns a JSON error whose error field is the message of the exception
\* raised.
C14_FailuresEchoException ==
  [][\A c \in Clients :
       CurrentUser(c) # 0 =>
         /\ \A pdf \in Documents, embed \in EmbedOutcomes :
              (upload_pdf(c, pdf, embed) /\ pdf.error # "")
                => IsJsonError(resp', 500, pdf.error)
         /\ \A pdf \in Documents, embed \in EmbedOutcomes :
              (upload_pdf(c, pdf, embed) /\ pdf.pages > 0 /\ embed # "ok")
                => IsJsonError(resp', 500, embed)
         /\ \A ocr \in OcrOutcomes :
              (ocr_question(c, "photo", ocr) /\ ocr.kind = "raises")
                => IsJsonError(resp', 500, ocr.message)
         /\ \A text \in TtsTexts, lang \in LangHints, outcome \in TtsOutcomes :
              (text_to_speech(c, text, lang, outcome) /\ text # "" /\ outcome # "ok")
                => IsJsonError(resp', 500, TtsMessage(outcome))]_vars

\* C14 as amended: an exception of PDF parsing or of embedding and indexing
\* gives status 500 with the exception's message in the error field, and so
\* does an exception of the OCR engine; a PDF that parses to no page gives
\* status 400 with the fixed message "PDF is empty or cannot be read"; an
\* image that cannot be opened is not caught and gives the server's own 500
\* page, no JSON; a failure of text-to-speech gives status 500 with the
\* fixed message "TTS failed", the exception's message being logged only.
C14_FailureMessages ==
  [][\A c \in Clients :
       CurrentUser(c) # 0 =>
         /\ \A pdf \in Documents, embed \in EmbedOutcomes :
              upload_pdf(c, pdf, embed) =>
                /\ pdf.error # "" => IsJsonError(resp', 500, pdf.error)
                /\ (pdf.error = "" /\ pdf.pages = 0)
                     => IsJsonError(resp', 400, "PDF is empty or cannot be read")
                /\ (pdf.pages > 0 /\ embed # "ok") => IsJsonError(resp', 500, embed)
         /\ \A image \in Images, ocr \in OcrOutcomes :
              ocr_question(c, image, ocr) =>
                /\ (image = "photo" /\ ocr.kind = "raises")
                     => IsJsonError(resp', 500, ocr.message)
                /\ image = "broken" => resp' = ServerError
         /\ \A text \in TtsTexts, lang \in LangHints, outcome \in TtsOutcomes :
              (text_to_speech(c, text, lang, outcome) /\ text # "" /\ outcome # "ok")
                => /\ IsJsonError(resp', 500, "TTS failed")
                   /\ resp'.json.error # TtsMessage(outcome)]_vars

\* C14 witness: a synthesis failed while writing output.mp3 and was answered
\* with "TTS failed".
C14_Witness ==
  /\ resp.kind = "json" /\ resp.status = 500
  /\ resp.json.error = "TTS failed"
  /\ output_mp3.state = "truncated"
  /\ Len(ext) = 1 /\ ext[1].service = "gTTS"

\* C15: /api/voice gives the recognizer the locale 'hi-IN' for the language
\* hint 'hi' and 'en-US' for every other hint and for none; speech it cannot
\* make out gives status 400 with the error 'Could not understand audio', a
\* recognition service out of reach status 500 with the error 'Speech
\* recognition service failed', and a transcription gives {text}.
C15_VoiceLocaleAndFailures ==
  [][\A c \in Clients, lang \in LangHints, stt \in SttOutcomes :
       (CurrentUser(c) # 0 /\ voice_to_text(c, "clip", lang, stt))
         => /\ ext' = <<[service |-> "recognize_google",
                         arg |-> IF lang = "hi" THEN "hi-IN" ELSE "en-US"]>>
            /\ stt = "ok" =>
                 /\ resp'.kind = "json" /\ resp'.status = 200
                 /\ DOMAIN resp'.json = {"text"}
            /\ stt = "UnknownValueError" =>
                 IsJsonError(resp', 400, "Could not understand audio")
            /\ stt = "RequestError" =>
                 IsJsonError(resp', 500, "Speech recognition service failed")]_vars

\* C15 witness: a clip sent with the hint 'hi' went to the recognizer with
\* the locale 'hi-IN', and the service was out of reach.
C15_Witness ==
  /\ ext = <<[service |-> "recognize_google", arg |-> "hi-IN"]>>
  /\ resp.kind = "json" /\ resp.status = 500
  /\ resp.json.error = "Speech recognition service failed"

\* Nothing the application keeps has changed: users, history, indexes, temp
\* files, output.mp3, the warm-up.
StateKept ==
  UNCHANGED <<users, questions, session, initialized, warmups,
              PDF_VECTORSTORES, tempfiles, output_mp3, awaiting, uploads>>

\* C16: an authenticated request to /api/ask, /api/upload_pdf, /api/ocr,
\* /api/voice or /api/tts that lacks its required field (question, file
\* pdf, file image, file audio, text) is answered with status 400 and a
\* JSON object that carries a message (in the field message for /api/ask,
\* in the field error for the others); it calls neither the model nor
\* another external service and changes no state.
C16_MissingFieldRejected ==
  [][\A c \in Clients :
       CurrentUser(c) # 0 =>
         /\ \A i \in AnyCallInputs :
              ask(c, <<>>, i[1], i[2], i[3])
                => /\ resp'.kind = "json" /\ resp'.status = 400
                   /\ resp'.json.message = "No question provided."
                   /\ ollama' = <<>> /\ ext' = ext /\ StateKept
         /\ \A embed \in EmbedOutcomes :
              upload_pdf(c, NoFile, embed)
                => /\ IsJsonError(resp', 400, "No PDF uploaded")
                   /\ ollama' = <<>> /\ ext' = <<>> /\ StateKept
         /\ \A ocr \in OcrOutcomes :
              ocr_question(c, "none", ocr)
                => /\ IsJsonError(resp', 400, "No image file uploaded.")
                   /\ ollama' = <<>> /\ ext' = <<>> /\ StateKept
         /\ \A lang \in LangHints, stt \in SttOutcomes :
              voice_to_text(c, "none", lang, stt)
                => /\ IsJsonError(resp', 400, "No audio file")
                   /\ ollama' = <<>> /\ ext' = <<>> /\ StateKept
         /\ \A lang \in LangHints, outcome \in TtsOutcomes :
              text_to_speech(c, "", lang, outcome)
                => /\ IsJsonError(resp', 400, "No text provided")
                   /\ ollama' = <<>> /\ ext' = <<>> /\ StateKept]_vars

\* C16 witness: an upload without the file pdf was just rejected, the
\* user's index and output.mp3 being there and a temp file left over.
C16_Witness ==
  /\ IsJsonError(resp, 400, "No PDF uploaded")
  /\ ext = <<>>
  /\ PDF_VECTORSTORES[1] # NoIndex
  /\ tempfiles = {1}
  /\ output_mp3.state = "audio"

\* C17: an uploaded document that parses to no page, or that cannot be
\* parsed, is rejected with an error response before any embedding is
\* computed, and the index stored for the uploading user, if any, stays as
\* it was.
C17_BadDocumentRejected ==
  [][\A c \in Clients, pdf \in Documents, embed \in EmbedOutcomes :
       (CurrentUser(c) # 0 /\ (pdf.error # "" \/ pdf.pages = 0)
          /\ upload_pdf(c, pdf, embed))
         => /\ resp'.kind = "json"
            /\ resp'.status \notin 200..299
            /\ "error" \in DOMAIN resp'.json
            /\ \A k \in 1..Len(ext') : ext'[k].service # "embeddings"
            /\ PDF_VECTORSTORES' = PDF_VECTORSTORES
            /\ uploads' = uploads]_vars

\* C17 witness: a user with an index of d1 uploaded the document of no
\* page; it was rejected and the index of d1 is still there.
C17_Witness ==
  /\ IsJsonError(resp, 400, "PDF is empty or cannot be read")
  /\ ext = <<[service |-> "PyPDFLoader", arg |-> "empty"]>>
  /\ \E u \in UserIds : PDF_VECTORSTORES[u].doc = "d1" /\ u \in tempfiles


\* How many warm-up prompts initialize has sent since the process started.
WarmupsSent == Len(warmups)

\* C18: in every interleaving of requests, two first requests to / that
\* both find the bot uninitialized included, initialize sends its warm-up
\* prompt to the model at most once in the lifetime of the process.
C18_WarmupAtMostOnce == WarmupsSent <= 1

\* The home page as rendered for a user.
HomePage(username) ==
  [kind |-> "html", status |-> 200, page |-> "home", flash |-> "", username |-> username]

\* C19: a failed warm-up blocks nothing. When initialize runs while the
\* model is unreachable, whether from a request to / or on import, the
\* bot is marked initialized and initialize returns normally (the request
\* gets its page, nothing is recorded); any later request to / by a signed-in
\* user gets its page without another warm-up, and a later /api/ask with a
\* question, made when the model answers, is sent to the model and answered
\* with status 200 and the formatted reply.
C19_FailedWarmupDoesNotBlock ==
  [][/\ \A c \in Browsers, i \in WarmCallInputs(TRUE) :
          (i[1] \in ErrorOutcomes /\ home_initialize(c, i[1], i[2], i[3]))
            => /\ initialized'
               /\ warmups' = Append(warmups, "failed")
               /\ ollama' = <<[prompt |-> HelloPrompt, ret |-> ModelErrorSentinel]>>
               /\ questions' = questions
               /\ resp' = HomePage(UsernameOf(pc[c].user))
     /\ \A i \in WarmCallInputs(TRUE) :
          (i[1] \in ErrorOutcomes /\ import_warmup(i[1]))
            => /\ initialized'
               /\ warmups' = <<"failed">>
               /\ UNCHANGED <<questions, resp>>
     /\ \A c \in Browsers :
          (warmups = <<"failed">> /\ CurrentUser(c) # 0 /\ home_enter(c))
            => /\ resp' = HomePage(UsernameOf(CurrentUser(c)))
               /\ ollama' = <<>>
               /\ UNCHANGED <<warmups, pc>>
     /\ \A c \in Browsers, q \in QuestionInputs, i \in WarmCallInputs(TRUE) :
          (warmups = <<"failed">> /\ CurrentUser(c) # 0 /\ ~IsBlank(q)
             /\ i[1].kind = "ok" /\ ask(c, q, i[1], i[2], i[3]))
            => /\ ollama' = <<[prompt |-> Strip(q), ret |-> i[1].text]>>
               /\ resp' = Json(200, [heading |-> Heading(Strip(q)), body |-> Body(i[1].text)])
               /\ questions' = Append(questions, RecordOf(CurrentUser(c), q, i[1].text, i[3]))]_vars

\* C19 witness: the only warm-up of the process failed, and a question asked
\* afterwards was sent to the model, answered and recorded.
C19_Witness ==
  /\ initialized
  /\ warmups = <<"failed">>
  /\ ollama = <<[prompt |-> <<"a", "?">>, ret |-> <<" ", "*", "x", "*", "\n">>]>>
  /\ resp.kind = "json" /\ resp.status = 200
  /\ Len(questions) = 1 /\ questions[1].question = <<"a", "?">>


\* The file a successful synthesis of text in language lang leaves.
AudioOf(text, lang) == [state |-> "audio", text |-> text, lang |-> TtsLang(LangCode(lang))]

\* C20: synthesized audio lives in one slot shared by all sessions. Every
\* successful /api/tts replaces output.mp3 with the audio of its own text,
\* whatever the file held and whatever the other sessions are waiting for,
\* and every fetch of /output.mp3 returns the file as it then is, not the
\* audio the fetching session synthesized; so a session whose synthesis was
\* followed by another session's is served the other's audio (the witness).
C20_OneAudioSlot ==
  [][/\ \A c \in Browsers, t \in AudioTexts \ {""}, l \in AudioLangs :
          (CurrentUser(c) # 0 /\ text_to_speech(c, t, l, "ok"))
            => /\ output_mp3' = AudioOf(t, l)
               /\ awaiting' = [awaiting EXCEPT ![c] = t]
     /\ \A c \in Browsers :
          (output_mp3.state # "missing" /\ serve_audio(c))
            => /\ resp'.kind = "file"
               /\ resp'.audio = output_mp3
               /\ UNCHANGED <<output_mp3, awaiting>>]_vars

\* C20 witness: session A (browser c1) synthesized "tA", session B (browser
\* c2, another user) then synthesized "tB", and A's fetch of /output.mp3
\* returned the audio of "tB".
C20_Witness ==
  /\ session["c1"] # 0 /\ session["c2"] # 0 /\ session["c1"] # session["c2"]
  /\ awaiting["c1"] = "tA"
  /\ awaiting["c2"] = "tB"
  /\ resp.kind = "file"
  /\ resp.client = "c1"
  /\ resp.audio.text = "tB"


\* A statement of the upload request of browser c.
UploadStep(c, embed) ==
  upload_save(c) \/ upload_load(c) \/ upload_store(c, embed) \/ upload_remove(c)

\* C21: retrieval indices are isolated per user. In every interleaving of
\* uploads, no statement of an upload by user A, succeeding or failing,
\* changes the index stored for another user B or the file temp_<B>.pdf,
\* and none of its file accesses (save, load, remove) names B's file.
C21_IndexesIsolated ==
  [][\A c \in Browsers, e \in EmbedOutcomes :
       (pc[c] # Idle /\ UploadStep(c, e))
         => \A B \in UserIds \ {pc[c].user} :
              /\ PDF_VECTORSTORES'[B] = PDF_VECTORSTORES[B]
              /\ temp_pdf'[TempPath(B)] = temp_pdf[TempPath(B)]
              /\ \A k \in 1..Len(ext') :
                   ext'[k].service \in {"save", "PyPDFLoader", "os.remove"}
                     => ext'[k].arg # TempPath(B)]_vars

\* C21 witness: uploads of two users ran interleaved, each has stored the
\* index of its own document and has its own temp file still on disk.
C21_Witness ==
  /\ pc["c1"].at = "remove" /\ pc["c1"].user = 1
  /\ pc["c2"].at = "remove" /\ pc["c2"].user = 2
  /\ PDF_VECTORSTORES[1] = FAISS_from_documents("d1", {"d1.1", "d1.2"})
  /\ PDF_VECTORSTORES[2] = FAISS_from_documents("d2", {"d2.1"})
  /\ temp_pdf[TempPath(1)] = "d1"
  /\ temp_pdf[TempPath(2)] = "d2"

\* C30: when one user runs two uploads concurrently, every upload that
\* answers with the success status has stored an index built from the
\* document sent in that same request, and no upload fails because the
\* other request removed the file temp_<user id>.pdf.
C30_OwnDocumentIndexed ==
  [][\A c \in Browsers :
       /\ (upload_remove(c) /\ resp'.status = 200) => pc[c].loaded = pc[c].sent
       /\ (upload_load(c) \/ upload_remove(c)) => resp' # Json(500, [error |-> NoSuchFile])]_vars


\* C22: cancelling an /api/ask in flight from the browser does not stop the
\* server. The Stop button changes nothing on the server; the request of a
\* page that has cancelled still calls the model with the question, and
\* when the call succeeds and the insert does, its record is appended to
\* the history; no response reaches the page, which keeps showing the
\* cancellation.
C22_CancelledAskStillRuns ==
  [][/\ \A c \in Clients : stop(c) => UNCHANGED <<pc, questions, ollama, resp>>
     /\ \A c \in Clients : \A i \in CallInputs :
          (shown[c] = "cancelled" /\ ask_complete(c, i[1], i[2], i[3]))
            => /\ Len(ollama') = 1
               /\ ollama'[1].prompt = pc[c].question
               /\ (i[1] \in SuccessOutcomes /\ i[2])
                    => /\ Len(questions') = Len(questions) + 1
                       /\ questions'[Len(questions')].user_id = pc[c].user
                       /\ questions'[Len(questions')].question = pc[c].question
                       /\ questions'[Len(questions')].answer = ollama'[1].ret
               /\ UNCHANGED <<resp, shown>>]_vars

\* C22 witness: the page shows the cancellation, the server has finished
\* the request all the same: the model was called with the question and
\* answered, the record is in the history, and the last response any page
\* received is the one of the login.
C22_Witness ==
  /\ shown["c1"] = "cancelled"
  /\ pc["c1"] = Idle
  /\ ollama = <<[prompt |-> <<"a", "?">>, ret |-> <<" ", "*", "x", "*", "\n">>]>>
  /\ Len(questions) = 1
  /\ questions[1].question = <<"a", "?">>
  /\ resp.kind = "redirect"


\* C23: a failure to persist the history record is never surfaced. When the
\* model call of an /api/ask succeeds and the insert into questions fails,
\* ask_ollama returns the model's answer unchanged, the route responds 200
\* with the heading and the body made of that answer, and the records are
\* left as they were.
C23_InsertFailureSwallowed ==
  [][\A c \in Clients, q \in QuestionInputs, o \in SuccessOutcomes :
       (CurrentUser(c) # 0 /\ ~IsBlank(q) /\ ask(c, q, o, FALSE, 0))
         => /\ ollama' = <<[prompt |-> Strip(q), ret |-> ResponseOf(o)]>>
            /\ resp' = Json(200, [heading |-> Heading(Strip(q)), body |-> Body(ResponseOf(o))])
            /\ questions' = questions]_vars

\* C23 witness: a signed-in user's question was answered by the model and
\* the response carries the answer, while the history holds no record.
C23_Witness ==
  /\ ollama = <<[prompt |-> <<"a", "?">>, ret |-> <<" ", "*", "x", "*", "\n">>]>>
  /\ resp.kind = "json" /\ resp.status = 200
  /\ resp.json.body = <<"x">>
  /\ questions = <<>>


\* A request of browser c to one of the API routes.
ApiRequest(c) ==
  \/ \E q \in QuestionInputs :
       \E i \in FaultCallInputs(CurrentUser(c) # 0 /\ Strip(q) # <<>>) :
         ask(c, q, i[1], i[2], i[3])
  \/ \E pdf \in RoutesDocuments, embed \in EmbedOutcomes : upload_pdf(c, pdf, embed)
  \/ \E image \in Images, ocr \in OcrOutcomes : ocr_question(c, image, ocr)
  \/ \E audio \in AudioClips, stt \in SttOutcomes : voice_to_text(c, audio, "en", stt)
  \/ \E t \in TtsTexts, o \in TtsOutcomes : text_to_speech(c, t, "en", o)

\* C24: no failure of a third-party library or service escapes a route as
\* an unhandled fault: every request of a signed-in user to an API route,
\* whatever fails in it (an undecodable image, an unreadable audio clip, a
\* model reply whose response is null), is answered with a JSON body made
\* by the route.
C24_NoUnhandledFault ==
  [][\A c \in Clients : (CurrentUser(c) # 0 /\ ApiRequest(c)) => resp'.kind = "json"]_vars


\* The rows of a table before a step are still there after it, in their
\* places and with the same field values.
RowsKept(before, after) ==
  /\ Len(before) <= Len(after)
  /\ \A k \in 1..Len(before) : after[k] = before[k]

\* C25: users and history records are append-only. No request to a route
\* updates or deletes a user row or a history record: after every step each
\* row that existed is still there with the same field values.
C25_AppendOnly ==
  [][RowsKept(users, users') /\ RowsKept(questions, questions')]_vars

\* C25 witness: two users have signed up and two records have been written,
\* the first row of each table having been there while the second was added.
C25_Witness ==
  /\ Len(users) = 2
  /\ Len(questions) = 2


\* The ids of the rows of a users table.
IdsOf(rows) == {rows[k].id : k \in 1..Len(rows)}

\* C26: in every reachable state the owning-user reference of every history
\* record is the id of an existing user; and a call of ask_ollama made
\* without a caller identity (the warm-up on import, outside any request)
\* returns the model's answer and writes no record.
C26_RecordsHaveOwners ==
  [][/\ \A k \in 1..Len(questions') : questions'[k].user_id \in IdsOf(users')
     /\ \A i \in WarmCallInputs(TRUE) :
          (i[1].kind = "ok" /\ import_warmup(i[1]))
            => /\ ollama' = <<[prompt |-> HelloPrompt, ret |-> i[1].text]>>
               /\ questions' = questions]_vars

\* C26 witness: the warm-up on import was answered by the model, its answer
\* returned, and the history is empty; no request has been made yet.
C26_Witness ==
  /\ warmups = <<"ok">>
  /\ ollama = <<[prompt |-> HelloPrompt, ret |-> <<" ", "*", "x", "*", "\n">>]>>
  /\ questions = <<>>
  /\ resp.kind = "none"


\* What ask_ollama returns for an outcome of the model call.
ReturnOf(outcome) ==
  IF outcome.kind \in ErrorKinds THEN ModelErrorSentinel ELSE ResponseOf(outcome)

C28_NoWarmupRecord ==
  \A k \in 1..Len(questions) : questions[k].question # HelloPrompt

\* The handles of the rows of a users table.
HandlesOf(rows) == {rows[k].username : k \in 1..Len(rows)}

\* C29: handles are unique in every reachable state, however signups
\* interleave. The INSERT of a signup whose handle is free adds the row and
\* the request is redirected to login; the INSERT of one whose handle is
\* taken by then, a concurrent signup for the same handle having inserted
\* first, adds nothing and the request reports 'Username already taken.'
C29_HandlesUnique ==
  [][/\ \A j, k \in 1..Len(users') : users'[j].username = users'[k].username => j = k
     /\ \A c \in Browsers :
          signup_insert(c)
            => IF pc[c].username \in HandlesOf(users)
               THEN /\ users' = users
                    /\ resp' = Page("signup", "Username already taken.")
               ELSE /\ Len(users') = Len(users) + 1
                    /\ users'[Len(users')].username = pc[c].username
                    /\ resp' = Redirect("login", "Account created! Please login.")]_vars

\* C29 witness: two signups for the handle admin were under way together,
\* the handle being free when each arrived; the first to insert created the
\* row, and the second was told the handle is taken.
C29_Witness ==
  /\ HandlesOf(users) = {"admin"}
  /\ Len(users) = 1
  /\ pc["c1"].at = "done" /\ pc["c1"].username = "admin" /\ pc["c1"].free
  /\ pc["c2"].at = "done" /\ pc["c2"].username = "admin" /\ pc["c2"].free
  /\ resp = Page("signup", "Username already taken.")

====
